---- MODULE Spec2Model ----
(***************************************************************************)
(* Model of apps/auth/oauth_state.py of the n8n SSO gateway: the OAuth     *)
(* state registry (OAuthStateManager), the per-code redemption lock        *)
(* (CallbackProcessor), process_oauth_callback_safely, the session store   *)
(* (SessionManager) and the Janitor (cleanup_oauth_data); of the session   *)
(* decision, the steps and the exception handlers of                       *)
(* handle_casdoor_callback and the retry loop of get_oauth_token in        *)
(* apps/auth/services.py; and of the route handlers casdoor_login and      *)
(* casdoor_callback in apps/auth/routers.py.                               *)
(*                                                                         *)
(* The module-level dictionaries of the source are the variables.  Every   *)
(* synchronous function of the source is one action: on the asyncio event  *)
(* loop nothing interleaves with code that does not await.  A coroutine is *)
(* cut at its awaits: the wait on the asyncio.Lock and the await of the    *)
(* callback.  Between the moment Lock.acquire has the lock and the re-check *)
(* of line 175 the model has a step of its own (pc = "got"): wait_for may   *)
(* run lock.acquire() in a task of its own, whose result reaches the caller *)
(* a loop iteration later.  A time-out or a cancellation may end any wait.  *)
(*                                                                         *)
(* The run of handle_casdoor_callback from line 461 on is cut at the       *)
(* awaits of ensure_user_project_binding and rotate_user_password          *)
(* (apps/integrations/n8n_db.py) and at the sleep of the login loop; the   *)
(* login of N8NClient.login_user is synchronous and is part of the step    *)
(* that decides the session.                                               *)
(***************************************************************************)
EXTENDS Integers, Sequences, FiniteSets, TLC

\* ------------------------------------------------------------------ bounds
\* Number of state tokens uuid4 hands out in a run.
MaxStates == 2
\* The clock stops advancing here (seconds).
MaxNow == 602
\* Concurrent callers of the redemption lock, each making one call.
NumTasks == 3
\* Distinct authorization codes.
NumCodes == 2
\* Stand-in for the 10000-entry high-water mark of cleanup_processed_codes.
HighWaterMark == 1
\* Stand-in for the 5000 entries cleanup_processed_codes removes.
EvictCount == 1
\* release_processing_lock calls made without holding an admission.
MaxStrayReleases == 2
\* Number of session ids uuid4 hands out in a run.
MaxSessions == 3
\* Number of steps the clock takes between the runs of handle_casdoor_callback.
MaxTicks == 4
\* Number of steps the clock takes between the calls of SessionManager.
MaxExpiryTicks == 2
\* Concurrent runs of handle_casdoor_callback, each handling one callback.
NumCallbacks == 2
\* Requests served by the route handlers, each handled once.
NumRequests == 2
\* Codes redeemed since the last sweep of the redeemed set.
MaxRedeemed == 5

\* ------------------------------------------------------- program constants
STATE_EXPIRY == 600
\* session_expiry of cleanup_expired_sessions
SESSION_EXPIRY == 3600
\* handle_casdoor_callback: is_very_recent = session_age < 60
REUSE_WINDOW == 60

\* A returned value is <<value>>, the None of Python is <<>>
None == <<>>
Returned(value) == <<value>>
EmptyId == 0
StateIds == 1..MaxStates
IPs == {"1.2.3.4", "9.9.9.9"}
UserAgents == {"ua1", "ua2"}
\* The clients that send requests: each has its ip and its user agent
Clients == {<<"1.2.3.4", "ua1">>, <<"9.9.9.9", "ua2">>}
Tasks == 1..NumTasks
Codes == 1..NumCodes
SessionIds == 1..MaxSessions
Emails == {"a@example.com", "b@example.com"}
Cookies == {"cookie1", "cookie2"}
Callbacks == 1..NumCallbacks
Requests == 1..NumRequests
\* get_casdoor_login_url: the default of its state parameter, the string
\* "state", which is no uuid4
LiteralState == -1

VARIABLES
    oauth_states,      \* _oauth_states: state_id -> OAuthState
    now,               \* time.time(), whole seconds
    issued,            \* number of uuid4 state ids handed out so far
    ret,               \* the last registry call, its arguments and what it returned
    successes,         \* history: state_id -> number of validate_state calls that returned it
    issuedAt,          \* history: state_id -> time generate_state issued it (-1: not issued)
    processing_locks,  \* _processing_locks: code_hash -> asyncio.Lock
    processed_codes,   \* _processed_codes
    pc,                \* where each task is in its call
    tkind,             \* "safe": process_oauth_callback_safely, "direct": acquire/release
    tcode,             \* the code each task presents
    acq,               \* what the task's acquire_processing_lock call returned
    ended,             \* history: how the task's acquire_processing_lock call ended
    out,               \* how the task's process_oauth_callback_safely call ended
    released,          \* history: the mark_processed of each release the admitted task made
    invoked,           \* history: code -> number of callback_func invocations
    sawRedeem,         \* history: the task was waiting when the holder released with mark_processed
    retry,             \* history: the task's acquire was the next one after a release without mark
    lastRelease,       \* history: code_hash -> how the lock was last released by its holder
    owner,             \* history: code_hash -> task whose acquire locked the lock (0: nobody)
    stray,             \* history: number of releases made without holding an admission
    evicted,           \* history: fingerprints cleanup_processed_codes has removed
    entry,             \* history: what the task's call found when it started
    active_sessions,   \* _active_sessions: session_id -> SessionInfo
    sessions_issued,   \* number of uuid4 session ids drawn so far
    sret,              \* the last session call, its arguments and what it returned
    ticks,             \* number of steps the clock of the session store has taken
    cb,                \* the runs of handle_casdoor_callback: where each is, its locals
    tok,               \* the call of get_oauth_token: where it is, its locals
    route,             \* the requests served by the route handlers
    run,               \* the runs of handle_casdoor_callback from line 461 on
    n8n_user,          \* the user table of n8n: email -> the password stored
    pw_issued          \* number of passwords drawn so far

registryVars == <<oauth_states, now, issued, ret, successes, issuedAt>>
lockVars == <<processing_locks, processed_codes>>
taskVars == <<pc, tkind, tcode, acq, ended, out, released, invoked, sawRedeem, retry,
              lastRelease, owner, stray, evicted, entry>>
sessionVars == <<active_sessions, sessions_issued, sret, ticks, cb>>
relayVars == <<tok, route>>
loginVars == <<run, n8n_user, pw_issued>>
vars == <<registryVars, lockVars, taskVars, sessionVars, relayVars, loginVars>>

\* ---------------------------------------------------------- OAuthState
OAuthState(state_id, user_ip, user_agent, created_at) ==
    [state_id |-> state_id, user_ip |-> user_ip, user_agent |-> user_agent,
     created_at |-> created_at, request_id |-> state_id,
     callback_url |-> "callback", is_consumed |-> FALSE]

\* The expiry test with >= for >
Expired_AtTtl(state, current_time) == current_time - state.created_at >= STATE_EXPIRY

\* lines 101 and 144: current_time - created_at > STATE_EXPIRY
Expired(state, current_time) == current_time - state.created_at > STATE_EXPIRY

\* OAuthStateManager.generate_state; uuid4 is a fresh id
generate_state(request_ip, user_agent) ==
    /\ issued < MaxStates
    /\ LET state_id == issued + 1 IN
        /\ oauth_states' = [s \in DOMAIN oauth_states \cup {state_id} |->
                              IF s = state_id
                              THEN OAuthState(state_id, request_ip, user_agent, now)
                              ELSE oauth_states[s]]
        /\ issued' = state_id
        /\ issuedAt' = [issuedAt EXCEPT ![state_id] = now]
        /\ ret' = [op |-> "generate_state", state_id |-> state_id,
                   request_ip |-> request_ip, user_agent |-> user_agent,
                   value |-> Returned(state_id),
                   fault |-> "none", swept |-> {}, raises |-> "none"]
    /\ UNCHANGED <<now, successes, lockVars, taskVars, sessionVars, relayVars, loginVars>>

\* Lines 119-125 with the mismatch of user_ip or user_agent treated as a failure
ValidateResult_RejectMismatch(states, state_id, current_time, request_ip, user_agent) ==
    IF state_id = EmptyId \/ state_id \notin DOMAIN states THEN None
    ELSE IF Expired(states[state_id], current_time) THEN None
    ELSE IF states[state_id].is_consumed THEN None
    ELSE IF states[state_id].user_ip # request_ip \/ states[state_id].user_agent # user_agent
         THEN None
    ELSE Returned([states[state_id] EXCEPT !.is_consumed = TRUE])

\* What validate_state returns for state_id in the registry states at
\* current_time.  Lines 119-125 compare user_ip with request_ip and only log
\* the mismatch; user_agent is compared with nothing.
ValidateResult(states, state_id, current_time, request_ip, user_agent) ==
    IF state_id = EmptyId \/ state_id \notin DOMAIN states THEN None
    ELSE IF Expired(states[state_id], current_time) THEN None
    ELSE IF states[state_id].is_consumed THEN None
    ELSE Returned([states[state_id] EXCEPT !.is_consumed = TRUE])

\* validate_state without line 128: the state is never marked consumed
ValidateStates_NoConsume(states, state_id, current_time, request_ip, user_agent) ==
    IF state_id = EmptyId \/ state_id \notin DOMAIN states THEN states
    ELSE IF Expired(states[state_id], current_time)
         THEN [s \in DOMAIN states \ {state_id} |-> states[s]]
    ELSE states

\* The registry validate_state leaves behind
ValidateStates(states, state_id, current_time, request_ip, user_agent) ==
    IF state_id = EmptyId \/ state_id \notin DOMAIN states THEN states
    ELSE IF Expired(states[state_id], current_time)
         THEN [s \in DOMAIN states \ {state_id} |-> states[s]]
    ELSE IF states[state_id].is_consumed THEN states
    ELSE [states EXCEPT ![state_id].is_consumed = TRUE]

\* OAuthStateManager.validate_state
validate_state(state_id, request_ip, user_agent) ==
    LET value == ValidateResult(oauth_states, state_id, now, request_ip, user_agent) IN
    /\ oauth_states' = ValidateStates(oauth_states, state_id, now, request_ip, user_agent)
    /\ ret' = [op |-> "validate_state", state_id |-> state_id,
               request_ip |-> request_ip, user_agent |-> user_agent, value |-> value,
               fault |-> "none", swept |-> {}, raises |-> "none"]
    /\ successes' = IF value # None
                    THEN [successes EXCEPT ![state_id] = @ + 1]
                    ELSE successes
    /\ UNCHANGED <<now, issued, issuedAt, lockVars, taskVars, sessionVars, relayVars, loginVars>>

\* The sweep removing the consumed states along with the expired ones
SweepStates_DropConsumed(states, current_time) ==
    [s \in {x \in DOMAIN states : /\ ~Expired(states[x], current_time)
                                  /\ ~states[x].is_consumed} |-> states[s]]

\* The registry after the sweep of cleanup_expired_states
SweepStates(states, current_time) ==
    [s \in {x \in DOMAIN states : ~Expired(states[x], current_time)} |-> states[s]]

\* OAuthStateManager.cleanup_expired_states
cleanup_expired_states ==
    /\ oauth_states' = SweepStates(oauth_states, now)
    /\ ret' = [op |-> "cleanup_expired_states", state_id |-> EmptyId,
               request_ip |-> "", user_agent |-> "", value |-> None,
               fault |-> "none", swept |-> {}, raises |-> "none"]
    /\ UNCHANGED <<now, issued, successes, issuedAt, lockVars, taskVars, sessionVars, relayVars, loginVars>>

\* time.time() advances
Tick ==
    \E d \in {STATE_EXPIRY \div 2, STATE_EXPIRY \div 2 + 1} :
        /\ now + d <= MaxNow
        /\ now' = now + d
        /\ ret' = [op |-> "tick", state_id |-> EmptyId,
               request_ip |-> "", user_agent |-> "", value |-> None,
               fault |-> "none", swept |-> {}, raises |-> "none"]
        /\ UNCHANGED <<oauth_states, issued, successes, issuedAt, lockVars, taskVars, sessionVars, relayVars, loginVars>>

\* ------------------------------------------------------ asyncio.Lock
\* hashlib.sha256(code.encode()).hexdigest()[:16]: the fingerprint that keys
\* the lock table and the redeemed set (taken as collision-free on Codes)
code_hash(code) == <<"sha256_16", code>>

Hashes == {code_hash(c) : c \in Codes}

\* asyncio.Lock(): _locked, the deque of waiters, and the waiters whose future
\* has its result set (woken, not yet running again)
NewLock == [locked |-> FALSE, waiters |-> <<>>, done |-> {}]

\* Lock._wake_up_first
WakeUpFirst(lock) ==
    IF lock.waiters = <<>> THEN lock
    ELSE [lock EXCEPT !.done = @ \cup {Head(lock.waiters)}]

\* Lock.release
LockRelease(lock) == WakeUpFirst([lock EXCEPT !.locked = FALSE])

\* Lock.acquire takes the lock at once: not locked and no live waiter
CanLockNow(lock) == ~lock.locked /\ lock.waiters = <<>>

\* Lock.acquire of a waiter that is cancelled (by the timeout of wait_for or by
\* the cancellation of the task): it leaves the queue and, the lock being
\* free, passes the wake-up on
WaiterCancelled(lock, t) ==
    LET left == [lock EXCEPT !.waiters = SelectSeq(@, LAMBDA x : x # t),
                             !.done = @ \ {t}]
    IN IF left.locked THEN left ELSE WakeUpFirst(left)

\* Lines 165-166 without the membership test: a new Lock on every call
EnsureLock_AlwaysNew(locks, h) ==
    [k \in DOMAIN locks \cup {h} |-> IF k = h THEN NewLock ELSE locks[k]]

\* lines 165-166: the lock table with an entry for code_hash
EnsureLock(locks, h) ==
    [k \in DOMAIN locks \cup {h} |-> IF k \in DOMAIN locks THEN locks[k] ELSE NewLock]

\* ------------------------------------------------- CallbackProcessor
\* CallbackProcessor.is_code_processed
is_code_processed(code) == code_hash(code) \in processed_codes

\* Line 203 never taken: the code is not marked
ReleaseCodes_NeverMark(codes, locks, h, mark_processed) == codes

\* Line 203 taken whatever mark_processed is
ReleaseCodes_AlwaysMark(codes, locks, h, mark_processed) ==
    IF h \in DOMAIN locks THEN codes \cup {h} ELSE codes

\* release_processing_lock, line 203: the redeemed set it leaves
ReleaseCodes(codes, locks, h, mark_processed) ==
    IF h \in DOMAIN locks /\ mark_processed THEN codes \cup {h} ELSE codes

\* release_processing_lock, lines 209-210: the lock table it leaves
ReleaseLocks(locks, h) ==
    IF h \in DOMAIN locks /\ locks[h].locked
    THEN [locks EXCEPT ![h] = LockRelease(@)]
    ELSE locks

\* acquire_processing_lock up to the await of line 172: the lock is created,
\* and taken at once or queued for
BeginAcquire(t, code) ==
    LET h == code_hash(code)
        locks == EnsureLock(processing_locks, h)
    IN /\ tcode' = [tcode EXCEPT ![t] = code]
       /\ entry' = [entry EXCEPT ![t] = [redeemed |-> h \in processed_codes,
                                         queued |-> ~CanLockNow(locks[h])]]
       /\ IF CanLockNow(locks[h])
          THEN /\ processing_locks' = [locks EXCEPT ![h].locked = TRUE]
               /\ pc' = [pc EXCEPT ![t] = "got"]
               /\ owner' = [owner EXCEPT ![h] = t]
               /\ retry' = [retry EXCEPT ![t] = (lastRelease[h] = "failed")]
               /\ lastRelease' = [lastRelease EXCEPT ![h] = "none"]
          ELSE /\ processing_locks' = [locks EXCEPT ![h].waiters = Append(@, t)]
               /\ pc' = [pc EXCEPT ![t] = "wait"]
               /\ UNCHANGED <<owner, retry, lastRelease>>

\* A new call: tasks are numbered in the order their calls start
Starts(t) == pc[t] = "idle" /\ (IF t = 1 THEN TRUE ELSE pc[t - 1] # "idle")

\* acquire_processing_lock called on its own (as the tests do)
acquire_processing_lock(t, code) ==
    /\ Starts(t)
    /\ tkind' = [tkind EXCEPT ![t] = "direct"]
    /\ BeginAcquire(t, code)
    /\ UNCHANGED <<processed_codes, acq, ended, out, released, invoked, sawRedeem,
                   stray, evicted, registryVars, sessionVars, relayVars, loginVars>>

\* process_oauth_callback_safely, lines 367-375: the fast-path check, then
\* the call of acquire_processing_lock
process_oauth_callback_safely(t, code) ==
    /\ Starts(t)
    /\ tkind' = [tkind EXCEPT ![t] = "safe"]
    /\ IF is_code_processed(code)
       THEN /\ pc' = [pc EXCEPT ![t] = "done"]
            /\ tcode' = [tcode EXCEPT ![t] = code]
            /\ out' = [out EXCEPT ![t] = "None"]
            /\ entry' = [entry EXCEPT ![t] = [redeemed |-> TRUE, queued |-> FALSE]]
            /\ UNCHANGED <<processing_locks, owner, retry, lastRelease>>
       ELSE /\ BeginAcquire(t, code)
            /\ UNCHANGED out
    /\ UNCHANGED <<processed_codes, acq, ended, released, invoked, sawRedeem,
                   stray, evicted, registryVars, sessionVars, relayVars, loginVars>>

\* The release of Lock.release wakes the first waiter; it runs again here:
\* Lock.acquire sets _locked and returns
LockAcquired(t) ==
    LET h == code_hash(tcode[t]) IN
    /\ pc[t] = "wait"
    /\ t \in processing_locks[h].done
    /\ processing_locks' =
          [processing_locks EXCEPT ![h] =
              [locked |-> TRUE,
               waiters |-> SelectSeq(@.waiters, LAMBDA x : x # t),
               done |-> @.done \ {t}]]
    /\ pc' = [pc EXCEPT ![t] = "got"]
    /\ owner' = [owner EXCEPT ![h] = t]
    /\ retry' = [retry EXCEPT ![t] = (lastRelease[h] = "failed")]
    /\ lastRelease' = [lastRelease EXCEPT ![h] = "none"]
    /\ UNCHANGED <<processed_codes, tkind, entry, tcode, acq, ended, out, released, invoked,
                   sawRedeem, stray, evicted, registryVars, sessionVars, relayVars, loginVars>>

\* Line 175 without the re-check
AlreadyProcessed_NoRecheck(h) == FALSE

\* acquire_processing_lock, line 175: the re-check once the lock is held
AlreadyProcessed(h) == h \in processed_codes

\* Line 176 left out: the lock stays locked when the call returns False
RefusedRelease_StillHeld(lock) == lock

\* acquire_processing_lock, line 176: lock.release() before the return False
RefusedRelease(lock) == LockRelease(lock)

\* acquire_processing_lock, lines 175-186
AcquireReturns(t) ==
    LET h == code_hash(tcode[t]) IN
    /\ pc[t] = "got"
    /\ IF AlreadyProcessed(h)
       THEN /\ processing_locks' = [processing_locks EXCEPT ![h] = RefusedRelease(@)]
            /\ owner' = [owner EXCEPT ![h] = 0]
            /\ acq' = [acq EXCEPT ![t] = "False"]
            /\ ended' = [ended EXCEPT ![t] = "redeemed"]
            /\ pc' = [pc EXCEPT ![t] = "done"]
            /\ out' = [out EXCEPT ![t] = IF tkind[t] = "safe" THEN "None" ELSE @]
            /\ UNCHANGED invoked
       ELSE /\ acq' = [acq EXCEPT ![t] = "True"]
            /\ ended' = [ended EXCEPT ![t] = "admitted"]
            /\ pc' = [pc EXCEPT ![t] = IF tkind[t] = "safe" THEN "callback" ELSE "admitted"]
            /\ invoked' = IF tkind[t] = "safe"
                          THEN [invoked EXCEPT ![tcode[t]] = @ + 1]
                          ELSE invoked
            /\ UNCHANGED <<processing_locks, owner, out>>
    /\ UNCHANGED <<processed_codes, tkind, entry, tcode, released, sawRedeem, retry, lastRelease,
                   stray, evicted, registryVars, sessionVars, relayVars, loginVars>>

\* A waiter leaves the wait of line 172 without the lock
LeaveWait(t, how) ==
    LET h == code_hash(tcode[t]) IN
    /\ pc[t] = "wait"
    /\ processing_locks' = [processing_locks EXCEPT ![h] = WaiterCancelled(@, t)]
    /\ ended' = [ended EXCEPT ![t] = how]

\* Line 193 with return True
TimeoutReturn_True == "True"

\* line 193: what acquire_processing_lock returns on asyncio.TimeoutError
TimeoutReturn == "False"

\* acquire_processing_lock, lines 188-193: wait_for times out; in
\* process_oauth_callback_safely the test of line 375 then decides between
\* the return of line 377 and the call of callback_func
AcquireTimesOut(t) ==
    /\ LeaveWait(t, "timeout")
    /\ acq' = [acq EXCEPT ![t] = TimeoutReturn]
    /\ IF tkind[t] = "safe" /\ TimeoutReturn = "True"
       THEN /\ pc' = [pc EXCEPT ![t] = "callback"]
            /\ invoked' = [invoked EXCEPT ![tcode[t]] = @ + 1]
            /\ UNCHANGED out
       ELSE /\ pc' = [pc EXCEPT ![t] = "done"]
            /\ out' = [out EXCEPT ![t] = IF tkind[t] = "safe" THEN "None" ELSE @]
            /\ UNCHANGED invoked
    /\ UNCHANGED <<processed_codes, tkind, entry, tcode, released, sawRedeem, retry,
                   lastRelease, owner, stray, evicted, registryVars, sessionVars, relayVars, loginVars>>

\* The task is cancelled while it waits at line 172: CancelledError is no
\* asyncio.TimeoutError and no Exception, nothing catches it
AcquireCancelled(t) ==
    /\ LeaveWait(t, "cancelled")
    /\ pc' = [pc EXCEPT ![t] = "done"]
    /\ acq' = [acq EXCEPT ![t] = "CancelledError"]
    /\ out' = [out EXCEPT ![t] = IF tkind[t] = "safe" THEN "CancelledError" ELSE @]
    /\ UNCHANGED <<processed_codes, tkind, entry, tcode, released, invoked, sawRedeem, retry,
                   lastRelease, owner, stray, evicted, registryVars, sessionVars, relayVars, loginVars>>

\* release_processing_lock called by the task that was admitted for the code
HolderReleases(t, mark_processed) ==
    LET h == code_hash(tcode[t]) IN
    /\ processed_codes' = ReleaseCodes(processed_codes, processing_locks, h, mark_processed)
    /\ processing_locks' = ReleaseLocks(processing_locks, h)
    /\ released' = [released EXCEPT ![t] = Append(@, mark_processed)]
    /\ owner' = [owner EXCEPT ![h] = 0]
    /\ lastRelease' = [lastRelease EXCEPT ![h] =
                          IF mark_processed THEN "redeemed" ELSE "failed"]
    /\ sawRedeem' = [u \in Tasks |->
                        sawRedeem[u] \/ (/\ mark_processed
                                         /\ pc[u] = "wait"
                                         /\ code_hash(tcode[u]) = h)]
    /\ pc' = [pc EXCEPT ![t] = "done"]

\* release_processing_lock by the caller of acquire_processing_lock
release_processing_lock(t, mark_processed) ==
    /\ pc[t] = "admitted"
    /\ HolderReleases(t, mark_processed)
    /\ UNCHANGED <<tkind, entry, tcode, acq, ended, out, invoked, retry, stray, evicted,
                   registryVars, sessionVars, relayVars, loginVars>>

\* Line 384 with mark_processed=False
MarkOnSuccess_False == FALSE

\* line 384: mark_processed=True once callback_func has returned
MarkOnSuccess == TRUE

\* line 390: mark_processed=False when callback_func raised
MarkOnException == FALSE

\* What callback_func may return: a result, or a RedirectResponse built by
\* create_safe_redirect, which stands for a failure
CallbackValues == {"result", "safe_redirect"}

\* process_oauth_callback_safely, lines 381-386: callback_func returns value
CallbackReturns(t, value) ==
    /\ pc[t] = "callback"
    /\ HolderReleases(t, MarkOnSuccess)
    /\ out' = [out EXCEPT ![t] = value]
    /\ UNCHANGED <<tkind, entry, tcode, acq, ended, invoked, retry, stray, evicted,
                   registryVars, sessionVars, relayVars, loginVars>>

\* process_oauth_callback_safely, lines 388-391: callback_func raises an Exception
CallbackRaises(t) ==
    /\ pc[t] = "callback"
    /\ HolderReleases(t, MarkOnException)
    /\ out' = [out EXCEPT ![t] = "Exception"]
    /\ UNCHANGED <<tkind, entry, tcode, acq, ended, invoked, retry, stray, evicted,
                   registryVars, sessionVars, relayVars, loginVars>>

\* Whether the handler of line 388 catches what the await of line 381 raised
\* when the task was cancelled: CancelledError is a BaseException
CatchesCancelledError == FALSE

\* The task is cancelled while it awaits callback_func at line 381
CallbackCancelled(t) ==
    /\ pc[t] = "callback"
    /\ out' = [out EXCEPT ![t] = "CancelledError"]
    /\ IF CatchesCancelledError
       THEN HolderReleases(t, MarkOnException)
       ELSE /\ pc' = [pc EXCEPT ![t] = "done"]
            /\ UNCHANGED <<lockVars, released, owner, lastRelease, sawRedeem>>
    /\ UNCHANGED <<tkind, entry, tcode, acq, ended, invoked, retry, stray, evicted,
                   registryVars, sessionVars, relayVars, loginVars>>

\* release_processing_lock called by a task that holds no admission for the
\* code: before any acquire of its own, or after its call has ended
ReleaseWithoutAdmission(t, code, mark_processed) ==
    LET h == code_hash(code) IN
    /\ pc[t] \in {"idle", "done"}
    /\ stray < MaxStrayReleases
    /\ stray' = stray + 1
    /\ processed_codes' = ReleaseCodes(processed_codes, processing_locks, h, mark_processed)
    /\ processing_locks' = ReleaseLocks(processing_locks, h)
    /\ owner' = [owner EXCEPT ![h] =
                    IF h \in DOMAIN processing_locks /\ processing_locks[h].locked
                    THEN 0 ELSE @]
    /\ UNCHANGED <<pc, tkind, entry, tcode, acq, ended, out, released, invoked, sawRedeem,
                   retry, lastRelease, evicted, registryVars, sessionVars, relayVars, loginVars>>

\* ---------------------------------------------------------- Janitor
\* cleanup_processed_codes: list(_processed_codes)[:5000] is some 5000
\* entries, in the iteration order of the set
EvictionChoices(codes) ==
    IF Cardinality(codes) > HighWaterMark
    THEN {codes \ gone : gone \in {g \in SUBSET codes : Cardinality(g) = EvictCount}}
    ELSE {codes}

\* CallbackProcessor.cleanup_processed_codes
cleanup_processed_codes ==
    /\ processed_codes' \in EvictionChoices(processed_codes)
    /\ evicted' = evicted \cup (processed_codes \ processed_codes')
    /\ UNCHANGED <<processing_locks, pc, tkind, entry, tcode, acq, ended, out, released, invoked,
                   sawRedeem, retry, lastRelease, owner, stray, registryVars, sessionVars, relayVars, loginVars>>

\* The sweep sparing the persistent sessions
SweepSessions_KeepPersistent(sessions, current_time) ==
    [i \in {x \in DOMAIN sessions :
               \/ ~(current_time - sessions[x].created_at > SESSION_EXPIRY)
               \/ sessions[x].is_persistent} |-> sessions[i]]

\* The session store after the sweep of cleanup_expired_sessions
SweepSessions(sessions, current_time) ==
    [i \in {x \in DOMAIN sessions :
               ~(current_time - sessions[x].created_at > SESSION_EXPIRY)} |-> sessions[i]]

\* The stores cleanup_oauth_data sweeps: lines 337, 338 and 339
Stores == {"states", "codes", "sessions"}

\* The sweeps of a pass of cleanup_oauth_data that run to their end when the
\* sweep of the store fault raises ("none": no sweep raises).  Lines 337-339
\* are three calls in a row with no try around any of them: the sweeps before
\* the one that raises have run, the ones after it are never called.
SweepsRun(fault) ==
    CASE fault = "states" -> {}
      [] fault = "codes" -> {"states"}
      [] fault = "sessions" -> {"states", "codes"}
      [] OTHER -> Stores

\* How a pass of cleanup_oauth_data ends: nothing in it catches what a sweep raises
PassRaises(fault) == IF fault = "none" THEN "none" ELSE "Exception"

\* A pass that applies LOCK_EXPIRY: every held lock is released
SweepLocks_Expire(locks) ==
    [h \in DOMAIN locks |-> [locks[h] EXCEPT !.locked = FALSE]]

\* The lock table a pass of cleanup_oauth_data leaves: none of its three
\* sweeps reads _processing_locks, and LOCK_EXPIRY (line 33) is read nowhere
SweepLocks(locks) == locks

\* A pass of cleanup_oauth_data, lines 333-341
JanitorPass(fault) ==
    LET swept == SweepsRun(fault) IN
    /\ processing_locks' = SweepLocks(processing_locks)
    /\ oauth_states' = IF "states" \in swept
                       THEN SweepStates(oauth_states, now) ELSE oauth_states
    /\ processed_codes' \in (IF "codes" \in swept
                             THEN EvictionChoices(processed_codes) ELSE {processed_codes})
    /\ evicted' = evicted \cup (processed_codes \ processed_codes')
    /\ active_sessions' = IF "sessions" \in swept
                          THEN SweepSessions(active_sessions, now) ELSE active_sessions
    /\ ret' = [op |-> "cleanup_oauth_data", state_id |-> EmptyId,
               request_ip |-> "", user_agent |-> "", value |-> None,
               fault |-> fault, swept |-> swept, raises |-> PassRaises(fault)]
    /\ UNCHANGED <<sessions_issued, sret, ticks, cb, relayVars, loginVars>>
    /\ UNCHANGED <<now, issued, successes, issuedAt, pc, tkind, entry, tcode, acq, ended,
                   out, released, invoked, sawRedeem, retry, lastRelease, owner, stray>>

\* cleanup_oauth_data: the three sweeps in one pass
cleanup_oauth_data == JanitorPass("none")

\* cleanup_oauth_data in a pass where the sweep of one store raises
cleanup_oauth_data_sweep_raises(store) == JanitorPass(store)

\* ------------------------------------------------------ SessionManager
\* A session call, its arguments, what it returned (the session id of
\* create_session, the bool of update_session_cookie) and, for the sweep, the
\* records of its local list expired_sessions
SRet(op, email, session_id, n8n_cookie, returned_id, returned_bool, removed) ==
    [op |-> op, email |-> email, session_id |-> session_id, n8n_cookie |-> n8n_cookie,
     returned_id |-> returned_id, returned_bool |-> returned_bool, removed |-> removed]

\* Line 252 with is_persistent=True
SessionInfo_AlwaysPersistent(email, session_id, created_at, n8n_cookie) ==
    [email |-> email, session_id |-> session_id, created_at |-> created_at,
     n8n_cookie |-> n8n_cookie, is_persistent |-> TRUE]

\* lines 247-253: the SessionInfo create_session builds; n8n_cookie is None
\* or <<cookie>>
SessionInfo(email, session_id, created_at, n8n_cookie) ==
    [email |-> email, session_id |-> session_id, created_at |-> created_at,
     n8n_cookie |-> n8n_cookie, is_persistent |-> (n8n_cookie # None)]

\* The first key of a dict in iteration order: keys are fresh uuids, never
\* inserted twice, so the order of insertion is the order of issue
FirstId(ids) == CHOOSE i \in ids : \A j \in ids : i <= j

\* SessionManager.get_active_session: the first record with the email
get_active_session(sessions, email) ==
    LET ids == {i \in DOMAIN sessions : sessions[i].email = email}
    IN IF ids = {} THEN None ELSE Returned(sessions[FirstId(ids)])

\* create_session, line 257: the record that makes it return early
ExistingPersistent(sessions, email) ==
    LET existing_session == get_active_session(sessions, email)
    IN IF existing_session = None THEN FALSE ELSE existing_session[1].is_persistent

\* create_session: the session id it returns (lines 264 and 275)
CreateValue(sessions, email, session_id) ==
    IF ExistingPersistent(sessions, email)
    THEN get_active_session(sessions, email)[1].session_id
    ELSE session_id

\* create_session: the store it leaves (line 266)
CreateSessions(sessions, email, n8n_cookie, session_id, current_time) ==
    IF ExistingPersistent(sessions, email) THEN sessions
    ELSE [i \in DOMAIN sessions \cup {session_id} |->
             IF i = session_id
             THEN SessionInfo(email, session_id, current_time, n8n_cookie)
             ELSE sessions[i]]

\* create_session on the store; uuid4 is drawn at line 245 in every call
CreateSession(email, n8n_cookie) ==
    /\ sessions_issued < MaxSessions
    /\ LET session_id == sessions_issued + 1 IN
        /\ sessions_issued' = session_id
        /\ active_sessions' =
              CreateSessions(active_sessions, email, n8n_cookie, session_id, now)
        /\ sret' = SRet("create_session", email, session_id, n8n_cookie,
                        CreateValue(active_sessions, email, session_id), FALSE, {})

\* SessionManager.create_session called on its own
create_session(email, n8n_cookie) ==
    /\ CreateSession(email, n8n_cookie)
    /\ UNCHANGED <<ticks, cb, registryVars, lockVars, taskVars, relayVars, loginVars>>

\* Lines 295-296 with the record stamped anew: created_at = time.time()
UpdateSessions_Renewed(sessions, session_id, n8n_cookie) ==
    IF session_id \notin DOMAIN sessions THEN sessions
    ELSE [sessions EXCEPT ![session_id].n8n_cookie = n8n_cookie,
                          ![session_id].is_persistent = TRUE,
                          ![session_id].created_at = now]

\* Lines 295-296 without line 296: the cookie is set, is_persistent is not
UpdateSessions_CookieOnly(sessions, session_id, n8n_cookie) ==
    IF session_id \notin DOMAIN sessions THEN sessions
    ELSE [sessions EXCEPT ![session_id].n8n_cookie = n8n_cookie]

\* update_session_cookie: the store it leaves (lines 288-296)
UpdateSessions(sessions, session_id, n8n_cookie) ==
    IF session_id \notin DOMAIN sessions THEN sessions
    ELSE [sessions EXCEPT ![session_id].n8n_cookie = n8n_cookie,
                          ![session_id].is_persistent = TRUE]

\* update_session_cookie on the store, with what it returns (lines 292, 304)
UpdateSessionCookie(session_id, n8n_cookie) ==
    /\ active_sessions' = UpdateSessions(active_sessions, session_id, n8n_cookie)
    /\ sret' = SRet("update_session_cookie", "", session_id, n8n_cookie,
                    EmptyId, session_id \in DOMAIN active_sessions, {})

\* SessionManager.update_session_cookie called on its own; n8n_cookie is a str
update_session_cookie(session_id, n8n_cookie) ==
    /\ UpdateSessionCookie(session_id, n8n_cookie)
    /\ UNCHANGED <<sessions_issued, ticks, cb, registryVars, lockVars, taskVars, relayVars, loginVars>>

\* SessionManager.cleanup_expired_sessions
cleanup_expired_sessions ==
    /\ active_sessions' = SweepSessions(active_sessions, now)
    /\ sret' = SRet("cleanup_expired_sessions", "", EmptyId, None, EmptyId, FALSE,
                    {active_sessions[i] :
                        i \in DOMAIN active_sessions \ DOMAIN active_sessions'})
    /\ UNCHANGED <<sessions_issued, ticks, cb, registryVars, lockVars, taskVars, relayVars, loginVars>>

\* The seconds the clock advances in its n-th step between the calls of
\* SessionManager: to the session expiry, one second on, and so on
ExpirySeconds(n) == IF n % 2 = 1 THEN SESSION_EXPIRY ELSE 1

\* time.time() advances between the calls of SessionManager
ExpiryTick ==
    LET d == ExpirySeconds(ticks + 1) IN
        /\ ticks < MaxExpiryTicks
        /\ ticks' = ticks + 1
        /\ now' = now + d
        /\ sret' = SRet("tick", "", EmptyId, None, EmptyId, FALSE, {})
        /\ UNCHANGED <<active_sessions, sessions_issued, cb, oauth_states, issued, ret,
                       successes, issuedAt, lockVars, taskVars, relayVars, loginVars>>

\* The seconds the clock advances in its n-th step between the runs of
\* handle_casdoor_callback: to
\* one second before the reuse window has passed, one second on, to the
\* session expiry, one second on, and so on
TickSeconds(n) ==
    CASE n % 4 = 1 -> REUSE_WINDOW - 1
      [] n % 4 = 3 -> SESSION_EXPIRY - REUSE_WINDOW
      [] OTHER -> 1

\* time.time() advances between the runs of handle_casdoor_callback
SessionTick ==
    LET d == TickSeconds(ticks + 1) IN
        /\ ticks < MaxTicks
        /\ ticks' = ticks + 1
        /\ now' = now + d
        /\ sret' = SRet("tick", "", EmptyId, None, EmptyId, FALSE, {})
        /\ UNCHANGED <<active_sessions, sessions_issued, cb, oauth_states, issued, ret,
                       successes, issuedAt, lockVars, taskVars, relayVars, loginVars>>

\* ------------------------------------------- handle_casdoor_callback
\* A run of handle_casdoor_callback that has not reached line 489
IdleCallback ==
    [pc |-> "idle", email |-> "", session_id |-> EmptyId, skip_n8n_login |-> FALSE,
     session_age |-> -1, has_cookie |-> FALSE]

\* Line 500 with the age alone deciding
skip_n8n_login_RecentOnly(existing_session, current_time) ==
    current_time - existing_session.created_at < REUSE_WINDOW

\* Line 497 with <= for <
skip_n8n_login_AtWindow(existing_session, current_time) ==
    /\ current_time - existing_session.created_at <= REUSE_WINDOW
    /\ existing_session.n8n_cookie # None
    /\ existing_session.is_persistent

\* services.py lines 496-500: is_very_recent and has_cookie and is_persistent
skip_n8n_login(existing_session, current_time) ==
    /\ current_time - existing_session.created_at < REUSE_WINDOW
    /\ existing_session.n8n_cookie # None
    /\ existing_session.is_persistent

\* Runs of handle_casdoor_callback are numbered in the order they reach line 489
CallbackStarts(k) == cb[k].pc = "idle" /\ (IF k = 1 THEN TRUE ELSE cb[k - 1].pc # "idle")

\* handle_casdoor_callback, services.py lines 489-531: the session decision.
\* No await separates the lookup of line 490 from create_session at line 526.
SessionDecision(k, email) ==
    LET existing_session == get_active_session(active_sessions, email) IN
    /\ CallbackStarts(k)
    /\ IF existing_session # None
       THEN LET skip == skip_n8n_login(existing_session[1], now) IN
            /\ cb' = [cb EXCEPT ![k] =
                         [pc |-> IF skip THEN "done" ELSE "login",
                          email |-> email,
                          session_id |-> existing_session[1].session_id,
                          skip_n8n_login |-> skip,
                          session_age |-> now - existing_session[1].created_at,
                          has_cookie |-> existing_session[1].n8n_cookie # None]]
            /\ sret' = SRet("get_active_session", email, EmptyId, None,
                            existing_session[1].session_id, FALSE, {})
            /\ UNCHANGED <<active_sessions, sessions_issued>>
       ELSE /\ CreateSession(email, None)
            /\ cb' = [cb EXCEPT ![k] =
                         [pc |-> "login", email |-> email,
                          session_id |-> CreateValue(active_sessions, email,
                                                     sessions_issued + 1),
                          skip_n8n_login |-> FALSE, session_age |-> -1,
                          has_cookie |-> FALSE]]
    /\ UNCHANGED <<ticks, registryVars, lockVars, taskVars, relayVars, loginVars>>

\* handle_casdoor_callback, services.py lines 587-666: the n8n login ends with
\* a cookie or without one (the retry of lines 625-640 awaits in between);
\* with a cookie, update_session_cookie attaches it to the session
LoginDone(k, auth_cookie) ==
    /\ cb[k].pc = "login"
    /\ cb' = [cb EXCEPT ![k].pc = "done"]
    /\ IF auth_cookie # None
       THEN UpdateSessionCookie(cb[k].session_id, auth_cookie)
       ELSE /\ sret' = SRet("login_without_cookie", cb[k].email, cb[k].session_id,
                            None, EmptyId, FALSE, {})
            /\ UNCHANGED active_sessions
    /\ UNCHANGED <<sessions_issued, ticks, registryVars, lockVars, taskVars, relayVars, loginVars>>

\* ------------------- handle_casdoor_callback, lines 461-866, and n8n
\* A login loop that makes one attempt more than that of line 590
login_max_retries_Three == 2 + 1

\* services.py, line 590: max_retries = 2, the attempts of the n8n login
login_max_retries == 2

\* The user table of n8n holds no row for the email
NoUser == 0
\* The password of a user that was provisioned before the process started:
\* no running callback knows it
OldPassword == -1
\* temp_password is None
NoPassword == 0

\* What handle_casdoor_callback returns: a RedirectResponse to the workflows
\* of n8n with the n8n-auth cookie set (lines 557-575 and 692-718), the
\* HTMLResponse with the login script (lines 739-846), or the redirect with
\* the flash message of the handler of line 848
LoginResponse(type, cookie) == [type |-> type, cookie |-> cookie]

\* A run of handle_casdoor_callback that has not reached line 461
IdleRun ==
    [pc |-> "idle", email |-> "", is_new_user |-> FALSE, temp_password |-> NoPassword,
     rotations |-> 0, existing |-> FALSE, session_id |-> EmptyId,
     skip_n8n_login |-> FALSE, session_age |-> -1, had_cookie |-> FALSE,
     creates |-> 0, attempts |-> 0, auth_cookie |-> None, updates |-> 0,
     updated_old |-> FALSE, stale |-> FALSE, response |-> LoginResponse("none", None)]

\* Runs of handle_casdoor_callback are numbered in the order they reach line 461
RunStarts(k) == run[k].pc = "idle" /\ (IF k = 1 THEN TRUE ELSE run[k - 1].pc # "idle")

\* The identity of a run: the first run is for the first email (the emails
\* are interchangeable)
RunEmails(k) == IF k = 1 THEN {"a@example.com"} ELSE Emails

\* The handler of line 848: whatever lines 461-846 raise ends the run with
\* the redirect that carries the flash message
Caught(r) == [r EXCEPT !.pc = "done", !.response = LoginResponse("flash_redirect", None)]

\* Line 480 never true: no password is rotated
NeedsRotation_Never(temp_password) == FALSE

\* services.py, line 480: if temp_password is None
NeedsRotation(temp_password) == temp_password = NoPassword

\* handle_casdoor_callback, lines 461-483, with ensure_user_project_binding
\* of n8n_db.py (lines 78-231): one SERIALIZABLE transaction that finds the
\* user or inserts it with a password of generate_random_password, and
\* returns that password for a new user only.  For an existing user line 483
\* calls rotate_user_password at once and awaits it.
ensure_user_project_binding(k, email, raises) ==
    LET temp_password == IF n8n_user[email] = NoUser THEN pw_issued + 1 ELSE NoPassword IN
    /\ RunStarts(k)
    /\ IF raises
       THEN /\ run' = [run EXCEPT ![k] = Caught([IdleRun EXCEPT !.email = email])]
            /\ UNCHANGED <<n8n_user, pw_issued>>
       ELSE /\ run' = [run EXCEPT ![k] =
                         [IdleRun EXCEPT !.email = email,
                                         !.is_new_user = temp_password # NoPassword,
                                         !.temp_password = temp_password,
                                         !.pc = IF NeedsRotation(temp_password)
                                                THEN "rotate" ELSE "decide"]]
            /\ IF temp_password # NoPassword
               THEN /\ pw_issued' = pw_issued + 1
                    /\ n8n_user' = [n8n_user EXCEPT ![email] = temp_password]
               ELSE UNCHANGED <<n8n_user, pw_issued>>
    /\ UNCHANGED <<registryVars, lockVars, taskVars, sessionVars, relayVars>>

\* rotate_user_password, n8n_db.py lines 233-251, awaited at line 483: the
\* UPDATE of the stored password takes effect in the database; the run goes
\* on when the event loop resumes it
rotate_user_password(k, raises) ==
    LET new_password == pw_issued + 1 IN
    /\ run[k].pc = "rotate"
    /\ IF raises
       THEN /\ run' = [run EXCEPT ![k] = Caught(@)]
            /\ UNCHANGED <<n8n_user, pw_issued>>
       ELSE /\ pw_issued' = new_password
            /\ n8n_user' = [n8n_user EXCEPT ![run[k].email] = new_password]
            /\ run' = [run EXCEPT ![k].temp_password = new_password,
                                  ![k].rotations = @ + 1,
                                  ![k].pc = "decide"]
    /\ UNCHANGED <<registryVars, lockVars, taskVars, sessionVars, relayVars>>

\* Line 543 with a cookie that is not the one of the record
ReuseCookie_Other(existing_session) ==
    Returned(CHOOSE c \in Cookies : Returned(c) # existing_session.n8n_cookie)

\* services.py, line 543: auth_cookie = existing_session.n8n_cookie
ReuseCookie(existing_session) == existing_session.n8n_cookie

\* Line 524 taken whatever the lookup found
NeedsNewSession_Always(existing_session) == TRUE

\* services.py, lines 494 and 524: create_session is called when the lookup
\* of line 490 found no record
NeedsNewSession(existing_session) == existing_session = None

\* Lines 489-523 of a run whose lookup found a record: its locals
Decided(r, existing_session, skip) ==
    [r EXCEPT !.existing = TRUE,
              !.session_id = existing_session.session_id,
              !.skip_n8n_login = skip,
              !.session_age = now - existing_session.created_at,
              !.had_cookie = existing_session.n8n_cookie # None]

\* handle_casdoor_callback, lines 489-575, when the session decision is to
\* reuse: no await lies between the lookup of line 490 and the return of
\* line 575
ReuseDecision(k) ==
    LET existing_session == get_active_session(active_sessions, run[k].email) IN
    /\ run[k].pc = "decide"
    /\ existing_session # None
    /\ skip_n8n_login(existing_session[1], now)
    /\ run' = [run EXCEPT ![k] =
                 [Decided(@, existing_session[1], TRUE) EXCEPT
                     !.pc = "done",
                     !.response = LoginResponse("cookie_redirect",
                                                ReuseCookie(existing_session[1]))]]
    /\ UNCHANGED <<n8n_user, pw_issued, registryVars, lockVars, taskVars, sessionVars,
                   relayVars>>

\* What the POST /rest/login of n8n may answer to a run: a response that
\* carries an n8n-auth cookie, one that carries none, or a failure.  n8n
\* checks the password against the one it stores: another password is a 401,
\* which login_user raises as N8NClientError (n8n_client.py, lines 40-47)
LoginOutcomes(r) ==
    IF r.temp_password = n8n_user[r.email]
    THEN {"cookie", "no_cookie", "raises"}
    ELSE {"raises"}

\* The n8n-auth cookie n8n sets when it accepts the login of run k: it signs
\* a new one at every login, so runs next to each other get different ones
LoginCookie(k) == IF k % 2 = 1 THEN "cookie1" ELSE "cookie2"

\* One pass of the loop of lines 592-641: login_user and
\* extract_n8n_auth_cookie; with a cookie the loop is left (line 615), without
\* one line 625 or 638 decides between the sleep and the end of the loop
LoginAttempt(r, outcome, cookie) ==
    LET a == [r EXCEPT !.attempts = @ + 1,
                       !.stale = @ \/ r.temp_password # n8n_user[r.email]]
    IN IF outcome = "cookie"
       THEN [a EXCEPT !.auth_cookie = Returned(cookie), !.pc = "finish"]
       ELSE IF r.attempts < login_max_retries - 1
            THEN [a EXCEPT !.pc = "sleep"]
            ELSE [a EXCEPT !.pc = "finish"]

\* The age of lines 498-499, of the record a run attaches its cookie to: it
\* was created 60 s ago or earlier
OldRecord(session_id) ==
    /\ session_id \in DOMAIN active_sessions
    /\ now - active_sessions[session_id].created_at >= 60

\* Lines 664-846 of a run that has left the loop: with a cookie
\* update_session_cookie is called and the redirect carries the cookie,
\* without one the HTMLResponse with the login script is returned
Finished(a) ==
    IF a.pc # "finish" THEN a
    ELSE IF a.auth_cookie # None
         THEN [a EXCEPT !.pc = "done", !.updates = @ + 1,
                        !.updated_old = OldRecord(a.session_id),
                        !.response = LoginResponse("cookie_redirect", a.auth_cookie)]
         ELSE [a EXCEPT !.pc = "done", !.response = LoginResponse("login_page", None)]

\* Line 666: the session store a run leaves when it has left the loop
SessionsAfter(a, sessions) ==
    IF a.pc = "finish" /\ a.auth_cookie # None
    THEN UpdateSessions(sessions, a.session_id, a.auth_cookie)
    ELSE sessions

\* handle_casdoor_callback, lines 489-531 and 576-627, when the session
\* decision is to refresh: the record found is kept, or one is created, and
\* the first attempt of the n8n login is made (login_user is no coroutine: no
\* await lies between line 490 and the sleep of line 627; when the attempt
\* yields a cookie, none lies before the return of line 718 either)
RefreshDecision(k, outcome) ==
    LET r == run[k]
        existing_session == get_active_session(active_sessions, r.email)
        session_id == sessions_issued + 1
        creates == NeedsNewSession(existing_session)
        sessions == IF creates
                    THEN CreateSessions(active_sessions, r.email, None, session_id, now)
                    ELSE active_sessions
        decided == IF existing_session # None
                   THEN [Decided(r, existing_session[1], FALSE) EXCEPT
                            !.session_id =
                                IF creates
                                THEN CreateValue(active_sessions, r.email, session_id)
                                ELSE @,
                            !.creates = IF creates THEN 1 ELSE 0]
                   ELSE [r EXCEPT !.session_id =
                                      CreateValue(active_sessions, r.email, session_id),
                                  !.creates = 1]
        a == LoginAttempt(decided, outcome, LoginCookie(k))
    IN /\ r.pc = "decide"
       /\ IF existing_session # None
          THEN ~skip_n8n_login(existing_session[1], now)
          ELSE TRUE
       /\ outcome \in LoginOutcomes(r)
       /\ creates => sessions_issued < MaxSessions
       /\ sessions_issued' = IF creates THEN session_id ELSE sessions_issued
       /\ active_sessions' = SessionsAfter(a, sessions)
       /\ run' = [run EXCEPT ![k] = Finished(a)]
       /\ UNCHANGED <<sret, ticks, cb, n8n_user, pw_issued, registryVars, lockVars,
                      taskVars, relayVars>>

\* handle_casdoor_callback, lines 627-846: the sleep of line 627 or 639 is
\* over and the next attempt of the n8n login is made
LoginRetry(k, outcome) ==
    LET a == LoginAttempt(run[k], outcome, LoginCookie(k)) IN
    /\ run[k].pc = "sleep"
    /\ outcome \in LoginOutcomes(run[k])
    /\ active_sessions' = SessionsAfter(a, active_sessions)
    /\ run' = [run EXCEPT ![k] = Finished(a)]
    /\ UNCHANGED <<sessions_issued, sret, ticks, cb, n8n_user, pw_issued, registryVars,
                   lockVars, taskVars, relayVars>>

\* --------------------------------------------------- get_oauth_token
\* services.py, line 110: the number of attempts of the retry loop
max_retries == 3

\* services.py, line 111: the first delay of the backoff, in seconds
base_delay == 1

\* What one POST to the token endpoint ends in: the status with the shape of
\* the body (a JSON object, JSON that is no object, no JSON; "400_code_used"
\* is the object {"error": "invalid_grant", "error_description":
\* "... authorization code has been used ..."}), or httpx.RequestError
Outcomes == {"200_object", "200_not_object", "200_unparseable",
             "400_code_used", "400_object", "400_not_object", "400_unparseable",
             "500", "network_error"}

\* The values a call can give back
NoValue == [type |-> "none", error_type |-> "none"]
NoneValue == [type |-> "NoneType", error_type |-> "none"]
TokenData == [type |-> "dict", error_type |-> "none"]

\* create_safe_redirect: the RedirectResponse to DEFAULT_REDIRECT_URL
create_safe_redirect(error_type) == [type |-> "RedirectResponse", error_type |-> error_type]

\* How the body of the loop ends
Return(value) == [kind |-> "return", value |-> value]
Raise(exception) == [kind |-> "raise", value |-> [type |-> exception, error_type |-> "none"]]
NextAttempt == [kind |-> "next", value |-> NoValue]

\* Lines 169-188 without the return of line 179: the used code is retried
AttemptEnds_RetryCodeUsed(attempt, outcome) ==
    LET last == (attempt = max_retries - 1) IN
    CASE outcome = "200_object" -> Return(TokenData)
      [] outcome = "200_not_object" -> Raise("AttributeError")
      [] outcome = "400_not_object" -> Raise("AttributeError")
      [] outcome = "200_unparseable" ->
            IF last THEN Return(create_safe_redirect("json_parse_error")) ELSE NextAttempt
      [] outcome = "network_error" ->
            IF last THEN Return(create_safe_redirect("network_error")) ELSE NextAttempt
      [] OTHER ->
            IF last THEN Return(create_safe_redirect("max_retries_exceeded")) ELSE NextAttempt

\* get_oauth_token, lines 121-231: the try statement of one attempt.
\* A 200 body that parses is used as a dict at lines 139-143 and returned; a
\* 400 body that parses is used as a dict at line 172; the methods of dict
\* are missing on any other JSON value, and neither handler (ValueError,
\* httpx.RequestError) catches that
AttemptEnds(attempt, outcome) ==
    LET last == (attempt = max_retries - 1) IN
    CASE outcome = "200_object" -> Return(TokenData)
      [] outcome = "200_not_object" -> Raise("AttributeError")
      [] outcome = "200_unparseable" ->
            IF last THEN Return(create_safe_redirect("json_parse_error")) ELSE NextAttempt
      [] outcome = "400_code_used" -> Return(create_safe_redirect("invalid_grant"))
      [] outcome = "400_not_object" -> Raise("AttributeError")
      [] outcome = "network_error" ->
            IF last THEN Return(create_safe_redirect("network_error")) ELSE NextAttempt
      [] OTHER ->
            IF last THEN Return(create_safe_redirect("max_retries_exceeded")) ELSE NextAttempt

\* No call of get_oauth_token yet
IdleToken == [pc |-> "idle", attempt |-> 0, requests |-> 0, outcomes |-> <<>>,
              kind |-> "none", value |-> NoValue, slept |-> 0]

\* get_oauth_token is called, lines 101-121
get_oauth_token ==
    /\ tok.pc = "idle"
    /\ tok' = [tok EXCEPT !.pc = "post"]
    /\ UNCHANGED <<route, registryVars, lockVars, taskVars, sessionVars, loginVars>>

\* One pass of the loop body, lines 122-231: the POST and what follows it.
\* When the body neither returns nor raises, line 234 decides between the
\* sleep and the end of the loop, after which the function returns None
TokenPost(outcome) ==
    LET e == AttemptEnds(tok.attempt, outcome)
        sent == [tok EXCEPT !.requests = @ + 1, !.outcomes = Append(@, outcome)]
    IN /\ tok.pc = "post"
       /\ tok' = IF e.kind # "next"
                 THEN [sent EXCEPT !.pc = "done", !.kind = e.kind, !.value = e.value]
                 ELSE IF tok.attempt < max_retries - 1
                      THEN [sent EXCEPT !.pc = "sleep"]
                      ELSE [sent EXCEPT !.pc = "done", !.kind = "return", !.value = NoneValue]
       /\ UNCHANGED <<route, registryVars, lockVars, taskVars, sessionVars, loginVars>>

\* lines 234-241: asyncio.sleep(base_delay * 2 ** attempt), then the next attempt
TokenSleep ==
    /\ tok.pc = "sleep"
    /\ tok' = [tok EXCEPT !.pc = "post", !.attempt = @ + 1,
                          !.slept = @ + base_delay * (2 ^ tok.attempt)]
    /\ UNCHANGED <<route, registryVars, lockVars, taskVars, sessionVars, loginVars>>

RECURSIVE TokenCall(_, _)
\* get_oauth_token run to its end against outcomes, the answers to its attempts
TokenCall(attempt, outcomes) ==
    LET e == AttemptEnds(attempt, outcomes[attempt + 1]) IN
    IF e.kind # "next" THEN e
    ELSE IF attempt < max_retries - 1
         THEN TokenCall(attempt + 1, outcomes)
         ELSE Return(NoneValue)

\* Every way a call of get_oauth_token can end
TokenResults == {TokenCall(0, outcomes) : outcomes \in [1..max_retries -> Outcomes]}

\* ---------------------------------------------------- route handlers
\* No request yet. calls lists, in order, the functions the handler has
\* called; state_ok tells whether the state the callback presented would have
\* passed validate_state when the callback arrived
IdleRequest == [handler |-> "none", pc |-> "idle", code |-> 0, state |-> EmptyId,
                state_ok |-> FALSE, calls |-> <<>>, failure |-> "none",
                kind |-> "none", response |-> NoValue]

\* The responses of handle_casdoor_callback that are no safe redirect of a helper
N8nRedirect == [type |-> "RedirectResponse", error_type |-> "none"]
LoginPage == [type |-> "HTMLResponse", error_type |-> "none"]
DefaultRedirect == [type |-> "RedirectResponse", error_type |-> "token_processing"]
FlashRedirect == [type |-> "RedirectResponse", error_type |-> "n8n_sso_error"]

\* casdoor_login: the redirect to the login URL of the identity provider
LoginRedirect == [type |-> "RedirectResponse", error_type |-> "none"]

\* The step went through: the handler goes on
Continue == [kind |-> "next", value |-> NoValue]

\* handle_casdoor_callback without the handler of lines 455-459
CaughtInTokenProcessing_Nothing(e) == e

\* handle_casdoor_callback, lines 455-459: except Exception around the token
\* exchange and the identity resolution
CaughtInTokenProcessing(e) == IF e.kind = "raise" THEN Return(DefaultRedirect) ELSE e

\* handle_casdoor_callback, lines 848-865: except Exception around the
\* provisioning and the login
CaughtInProvisioning(e) == IF e.kind = "raise" THEN Return(FlashRedirect) ELSE e

\* casdoor_callback, lines 31-52: the result is returned; an HTTPException is
\* raised again, any other exception is raised as HTTPException(500)
RouterEnds(e) == IF e.kind = "raise" THEN Raise("HTTPException") ELSE e

\* handle_casdoor_callback, lines 414-419: what the result of get_oauth_token leads to
AfterToken(token_result) ==
    CaughtInTokenProcessing(
        IF token_result.kind = "raise" THEN token_result
        ELSE IF token_result.value.type = "RedirectResponse" THEN token_result
        ELSE IF token_result.value.type = "dict" THEN Continue
        ELSE Raise("AttributeError"))

\* handle_casdoor_callback, lines 420-453: id_token, parse_jwt_token,
\* map_casdoor_to_profile; each returns a safe redirect on its failures
AfterIdentity(outcome) ==
    CaughtInTokenProcessing(
        CASE outcome = "ok" -> Continue
          [] outcome = "redirect" -> Return(create_safe_redirect("identity"))
          [] OTHER -> Raise("Exception"))

\* handle_casdoor_callback, lines 461-866: provisioning, session decision,
\* login to n8n, and the response
AfterProvisioning(outcome) ==
    CaughtInProvisioning(
        CASE outcome = "cookie" -> Return(N8nRedirect)
          [] outcome = "no_cookie" -> Return(LoginPage)
          [] OTHER -> Raise("Exception"))

\* Requests are numbered in the order they arrive
RequestStarts(k) ==
    route[k].pc = "idle" /\ (IF k = 1 THEN TRUE ELSE route[k - 1].pc # "idle")

\* get_casdoor_login_url(redirect_uri, state): the state parameter of the URL
get_casdoor_login_url(redirect_uri, state) == [redirect_uri |-> redirect_uri, state |-> state]

\* casdoor_login, lines 55-84: get_casdoor_login_url is called with the
\* callback URL alone, so state has its default; nothing of oauth_state.py is
\* called. An exception of the URL helper is raised as HTTPException(500)
casdoor_login(k, url_fails) ==
    LET login_url == get_casdoor_login_url("casdoor_callback", LiteralState) IN
    /\ RequestStarts(k)
    /\ route' = [route EXCEPT ![k] =
                    [IdleRequest EXCEPT
                        !.handler = "login", !.pc = "done",
                        !.calls = <<"get_casdoor_login_url">>,
                        !.state = IF url_fails THEN EmptyId ELSE login_url.state,
                        !.failure = IF url_fails THEN "login_url" ELSE "none",
                        !.kind = IF url_fails THEN "raise" ELSE "return",
                        !.response = IF url_fails
                                     THEN Raise("HTTPException").value
                                     ELSE LoginRedirect]]
    /\ UNCHANGED <<tok, registryVars, lockVars, taskVars, sessionVars, loginVars>>

\* casdoor_callback, lines 19-32, and handle_casdoor_callback, lines 404-412:
\* the callback arrives and handle_casdoor_callback is called with it
casdoor_callback(k, code, state, client) ==
    /\ RequestStarts(k)
    /\ route' = [route EXCEPT ![k] =
                    [IdleRequest EXCEPT
                        !.handler = "callback", !.pc = "token",
                        !.code = code, !.state = state,
                        !.state_ok = (ValidateResult(oauth_states, state, now,
                                                     client[1], client[2]) # None),
                        !.calls = <<"handle_casdoor_callback">>]]
    /\ UNCHANGED <<tok, registryVars, lockVars, taskVars, sessionVars, loginVars>>

\* The step of handle_casdoor_callback that called does ends in e: the run
\* goes on to next_pc, or the route handler ends
RunStep(k, does, failed, e, next_pc) ==
    LET r == RouterEnds(e) IN
    /\ route' = [route EXCEPT ![k] =
                    IF e.kind = "next"
                    THEN [@ EXCEPT !.pc = next_pc, !.calls = Append(@, does)]
                    ELSE [@ EXCEPT !.pc = "done", !.calls = Append(@, does),
                                   !.failure = failed,
                                   !.kind = r.kind, !.response = r.value]]
    /\ UNCHANGED <<tok, registryVars, lockVars, taskVars, sessionVars, loginVars>>

\* handle_casdoor_callback, lines 412-419: the token exchange
TokenExchange(k, token_result) ==
    /\ route[k].pc = "token"
    /\ RunStep(k, "get_oauth_token",
               IF token_result = Return(TokenData) THEN "none" ELSE "token_exchange",
               AfterToken(token_result), "identity")

\* handle_casdoor_callback, lines 420-453: the identity resolution
IdentityResolution(k, outcome) ==
    /\ route[k].pc = "identity"
    /\ RunStep(k, "parse_jwt_token",
               IF outcome = "ok" THEN "none" ELSE "identity",
               AfterIdentity(outcome), "provision")

\* handle_casdoor_callback, lines 461-866: provisioning and login
ProvisionAndLogin(k, outcome) ==
    /\ route[k].pc = "provision"
    /\ RunStep(k, "ensure_user_project_binding",
               IF outcome = "raises" THEN "provisioning" ELSE "none",
               AfterProvisioning(outcome), "done")

\* handle_casdoor_callback run to its end, lines 404-866
handle_casdoor_callback(token_result, identity, provisioning) ==
    LET a == AfterToken(token_result)
        b == AfterIdentity(identity)
    IN IF a.kind # "next" THEN a
       ELSE IF b.kind # "next" THEN b
       ELSE AfterProvisioning(provisioning)

\* The answers of the token endpoint in the runs of the wrapper: every
\* attempt of a call is answered the same way
RelayOutcomes == {"200_object", "network_error", "400_code_used"}

\* process_oauth_callback_safely(code, handle_casdoor_callback, request),
\* lines 381-391: the callback ends, with the token endpoint answering outcome
\* to every attempt. What the wrapper hands back is named by the error type of
\* the redirect, "result" for the response of a login that went through
HandleCallbackEnds(t, outcome) ==
    LET r == handle_casdoor_callback(TokenCall(0, [i \in 1..max_retries |-> outcome]),
                                     "ok", "cookie")
    IN /\ pc[t] = "callback"
       /\ IF r.kind = "raise"
          THEN /\ HolderReleases(t, MarkOnException)
               /\ out' = [out EXCEPT ![t] = "Exception"]
          ELSE /\ HolderReleases(t, MarkOnSuccess)
               /\ out' = [out EXCEPT ![t] = IF r.value.error_type = "none"
                                            THEN "result" ELSE r.value.error_type]
       /\ UNCHANGED <<tkind, entry, tcode, acq, ended, invoked, retry, stray, evicted,
                      registryVars, sessionVars, relayVars, loginVars>>

\* -------------------------------------------------------- specifications
\* Everything but the lock table, the redeemed set and the user table of
\* n8n, as the modules leave it when they are imported
InitOthers ==
    /\ run = [k \in Callbacks |-> IdleRun]
    /\ pw_issued = 0
    /\ oauth_states = <<>>
    /\ now = 0
    /\ issued = 0
    /\ ret = [op |-> "init", state_id |-> EmptyId,
               request_ip |-> "", user_agent |-> "", value |-> None,
               fault |-> "none", swept |-> {}, raises |-> "none"]
    /\ successes = [s \in StateIds |-> 0]
    /\ issuedAt = [s \in StateIds |-> -1]
    /\ pc = [t \in Tasks |-> "idle"]
    /\ tkind = [t \in Tasks |-> "none"]
    /\ tcode = [t \in Tasks |-> 0]
    /\ acq = [t \in Tasks |-> "none"]
    /\ ended = [t \in Tasks |-> "none"]
    /\ out = [t \in Tasks |-> "none"]
    /\ released = [t \in Tasks |-> <<>>]
    /\ invoked = [c \in Codes |-> 0]
    /\ sawRedeem = [t \in Tasks |-> FALSE]
    /\ retry = [t \in Tasks |-> FALSE]
    /\ lastRelease = [h \in Hashes |-> "none"]
    /\ owner = [h \in Hashes |-> 0]
    /\ stray = 0
    /\ evicted = {}
    /\ entry = [t \in Tasks |-> [redeemed |-> FALSE, queued |-> FALSE]]
    /\ active_sessions = <<>>
    /\ sessions_issued = 0
    /\ sret = SRet("init", "", EmptyId, None, EmptyId, FALSE, {})
    /\ ticks = 0
    /\ cb = [k \in Callbacks |-> IdleCallback]
    /\ tok = IdleToken
    /\ route = [k \in Requests |-> IdleRequest]

Init ==
    /\ processing_locks = <<>>
    /\ processed_codes = {}
    /\ n8n_user = [e \in Emails |-> NoUser]
    /\ InitOthers

\* The state registry and its callers
NextState ==
    \/ \E c \in Clients : generate_state(c[1], c[2])
    \/ \E s \in {EmptyId} \cup StateIds, c \in Clients : validate_state(s, c[1], c[2])
    \/ cleanup_expired_states
    \/ cleanup_oauth_data
    \/ Tick

SpecState == Init /\ [][NextState]_vars

\* The state registry, its callers and a Janitor whose sweeps may raise
NextFault ==
    \/ NextState
    \/ \E store \in Stores : cleanup_oauth_data_sweep_raises(store)

SpecFault == Init /\ [][NextFault]_vars

\* The codes a new call may present: a code that was presented before, or
\* the next one never presented (the codes are interchangeable)
CodesNow == {c \in Codes : c = 1 \/ \E t \in Tasks : tcode[t] = c - 1}

\* The redemption lock and its callers, the redeemed set staying at or below
\* the high-water mark, where cleanup_processed_codes changes nothing
NextLock ==
    \/ \E t \in Tasks, c \in CodesNow : acquire_processing_lock(t, c)
    \/ \E t \in Tasks, c \in CodesNow : process_oauth_callback_safely(t, c)
    \/ \E t \in Tasks : LockAcquired(t)
    \/ \E t \in Tasks : AcquireReturns(t)
    \/ \E t \in Tasks : AcquireTimesOut(t)
    \/ \E t \in Tasks : AcquireCancelled(t)
    \/ \E t \in Tasks, m \in BOOLEAN : release_processing_lock(t, m)
    \/ \E t \in Tasks, v \in CallbackValues : CallbackReturns(t, v)
    \/ \E t \in Tasks : CallbackRaises(t)
    \/ \E t \in Tasks : CallbackCancelled(t)

SpecLock == Init /\ [][NextLock]_vars

\* The redemption lock, its callers and the sweep of the Janitor over the
\* redeemed set, which evicts once the set is above the high-water mark
NextJanitor ==
    \/ NextLock
    \/ cleanup_processed_codes

SpecJanitor == Init /\ [][NextJanitor]_vars

\* The redemption lock with callers that release what they do not hold
NextMisuse ==
    \/ NextLock
    \/ \E t \in Tasks, c \in Codes, m \in BOOLEAN : ReleaseWithoutAdmission(t, c, m)

SpecMisuse == Init /\ [][NextMisuse]_vars

\* The callers of acquire_processing_lock and release_processing_lock whose
\* tasks run until their calls return (no task is cancelled)
NextWaiters ==
    \/ \E t \in Tasks, c \in CodesNow : acquire_processing_lock(t, c)
    \/ \E t \in Tasks : LockAcquired(t)
    \/ \E t \in Tasks : AcquireReturns(t)
    \/ \E t \in Tasks : AcquireTimesOut(t)
    \/ \E t \in Tasks, m \in BOOLEAN : release_processing_lock(t, m)

\* The event loop runs a task whose future is done: a woken waiter takes
\* the lock, and a caller that has the lock goes on to line 175
WaitersFairness ==
    \A t \in Tasks : WF_vars(LockAcquired(t)) /\ WF_vars(AcquireReturns(t))

SpecWaiters == Init /\ [][NextWaiters]_vars /\ WaitersFairness

\* The same callers and the Janitor: a pass of cleanup_oauth_data
NextHeld ==
    \/ NextWaiters
    \/ cleanup_oauth_data

SpecHeld == Init /\ [][NextHeld]_vars

\* The fingerprints of the codes redeemed since the last sweep
Redeemed == {code_hash(c) : c \in 1..MaxRedeemed}

\* The stores when the Janitor comes by: any number of codes have been
\* redeemed since its last pass (each release_processing_lock(code, True) of
\* an admitted caller adds a fingerprint, lines 200-204, and nothing in the
\* program fixes how often the Janitor runs), all their calls have returned
InitSweep ==
    /\ processed_codes \in SUBSET Redeemed
    /\ processing_locks = [h \in processed_codes |-> NewLock]
    /\ n8n_user = [e \in Emails |-> NoUser]
    /\ InitOthers

\* The sweeps of the redeemed set: on its own, and in a pass of the Janitor
NextSweep ==
    \/ cleanup_processed_codes
    \/ cleanup_oauth_data

SpecSweep == InitSweep /\ [][NextSweep]_vars

\* The user table of n8n when the process starts: every user may have been
\* provisioned before
InitLogin ==
    /\ processing_locks = <<>>
    /\ processed_codes = {}
    /\ n8n_user \in [Emails -> {NoUser, OldPassword}]
    /\ InitOthers

\* Concurrent runs of handle_casdoor_callback from line 461 on, and n8n
NextLogin ==
    \/ \E k \in Callbacks : \E e \in RunEmails(k), f \in BOOLEAN :
          ensure_user_project_binding(k, e, f)
    \/ \E k \in Callbacks, f \in BOOLEAN : rotate_user_password(k, f)
    \/ \E k \in Callbacks : ReuseDecision(k)
    \/ \E k \in Callbacks, o \in {"cookie", "no_cookie", "raises"} : RefreshDecision(k, o)
    \/ \E k \in Callbacks, o \in {"cookie", "no_cookie", "raises"} : LoginRetry(k, o)

SpecLogin == InitLogin /\ [][NextLogin]_vars

\* The same runs, from a user table that is empty when the process starts,
\* while the clock advances and the Janitor sweeps the sessions (a sweep that
\* finds no expired record leaves the store as it was and is left out)
NextAging ==
    \/ NextLogin
    \/ cleanup_expired_sessions /\ active_sessions' # active_sessions
    \/ SessionTick

SpecAging == Init /\ [][NextAging]_vars

\* One call of get_oauth_token against a token endpoint that answers anything
NextToken ==
    \/ get_oauth_token
    \/ \E o \in Outcomes : TokenPost(o)
    \/ TokenSleep

SpecToken == Init /\ [][NextToken]_vars

\* The states a callback may present: the one the login redirect carried, or
\* a forged one
PresentedStates == {LiteralState, 1}

\* The route handlers of routers.py and the requests they serve
NextRoute ==
    \/ \E k \in Requests, f \in BOOLEAN : casdoor_login(k, f)
    \/ \E k \in Requests, c \in Codes, s \in PresentedStates, cl \in Clients :
          casdoor_callback(k, c, s, cl)
    \/ \E k \in Requests, r \in TokenResults : TokenExchange(k, r)
    \/ \E k \in Requests, o \in {"ok", "redirect", "raises"} : IdentityResolution(k, o)
    \/ \E k \in Requests, o \in {"cookie", "no_cookie", "raises"} : ProvisionAndLogin(k, o)

SpecRoute == Init /\ [][NextRoute]_vars

\* The wrapper with handle_casdoor_callback as its callback
NextRelay ==
    \/ \E t \in Tasks, c \in CodesNow : process_oauth_callback_safely(t, c)
    \/ \E t \in Tasks : LockAcquired(t)
    \/ \E t \in Tasks : AcquireReturns(t)
    \/ \E t \in Tasks : AcquireTimesOut(t)
    \/ \E t \in Tasks, o \in RelayOutcomes : HandleCallbackEnds(t, o)

SpecRelay == Init /\ [][NextRelay]_vars

\* The emails a caller may present: the first session of a run is created
\* for the first email (the emails are interchangeable)
EmailsNow == IF sessions_issued = 0 THEN {"a@example.com"} ELSE Emails

\* The session store and arbitrary callers of SessionManager
NextSession ==
    \/ \E e \in EmailsNow, c \in {None} \cup {Returned(x) : x \in Cookies} : create_session(e, c)
    \/ \E i \in SessionIds, c \in {Returned(x) : x \in Cookies} : update_session_cookie(i, c)
    \/ cleanup_expired_sessions
    \/ ExpiryTick

SpecSession == Init /\ [][NextSession]_vars

\* The session store as handle_casdoor_callback and the Janitor drive it
NextCallback ==
    \/ \E k \in Callbacks, e \in EmailsNow : SessionDecision(k, e)
    \/ \E k \in Callbacks, c \in {None} \cup {Returned(x) : x \in Cookies} : LoginDone(k, c)
    \/ cleanup_expired_sessions
    \/ SessionTick

SpecCallback == Init /\ [][NextCallback]_vars

\* ------------------------------------------------------------ properties
\* The task's acquire_processing_lock returned True and the task has not
\* called release_processing_lock since
Holding(t) == acq[t] = "True" /\ released[t] = <<>>

\* release_processing_lock(c, mark_processed=True) has run for an admitted c
EverRedeemed(h) ==
    \E t \in Tasks : /\ tcode[t] \in Codes
                     /\ code_hash(tcode[t]) = h
                     /\ \E i \in 1..Len(released[t]) : released[t][i]

\* C1: for every issued state token, at most one validate_state call returns
\* the state record, whatever generate_state, validate_state and sweep calls
\* are interleaved with it; every other call returns None.
C1_ValidatedAtMostOnce == \A s \in StateIds : successes[s] <= 1

\* C1 happens: a token was returned once and a later validate of it got None
C1_Witness ==
    /\ ret.op = "validate_state"
    /\ ret.state_id \in DOMAIN oauth_states
    /\ ret.value = None
    /\ successes[ret.state_id] = 1
    /\ ~Expired(oauth_states[ret.state_id], now)

\* C2: for every code, at every moment, at most one acquire_processing_lock
\* call has returned True without a release_processing_lock after it.
C2_OneAdmitted ==
    \A c \in Codes : Cardinality({t \in Tasks : tcode[t] = c /\ Holding(t)}) <= 1

\* C2 happens: one caller holds the code and another got False in the meantime
C2_Witness ==
    \E t, u \in Tasks : /\ t # u
                        /\ tcode[t] = tcode[u]
                        /\ Holding(t)
                        /\ acq[u] = "False"
                        /\ ended[u] = "timeout"

\* C3 as claimed: once release_processing_lock(c, True) has run, no later
\* acquire_processing_lock(c) returns True, the eviction of the Janitor included.
C3_NeverAdmittedAgain ==
    \A t \in Tasks : Holding(t) => ~EverRedeemed(code_hash(tcode[t]))

\* C3 amended: once release_processing_lock(c, True) has run, no later
\* acquire_processing_lock(c) returns True unless cleanup_processed_codes has
\* evicted the fingerprint of c; no caller is ever admitted for a code whose
\* fingerprint is in the redeemed set.
C3_NeverAdmittedUnlessEvicted ==
    \A t \in Tasks :
        Holding(t) => /\ code_hash(tcode[t]) \notin processed_codes
                      /\ EverRedeemed(code_hash(tcode[t])) =>
                             code_hash(tcode[t]) \in evicted

\* C3 happens: a redeemed code, still in the set after a sweep of the Janitor
\* that evicted another one, was refused by a later acquire
C3_Witness ==
    \E t \in Tasks : /\ ended[t] = "redeemed"
                     /\ acq[t] = "False"
                     /\ EverRedeemed(code_hash(tcode[t]))
                     /\ code_hash(tcode[t]) \in processed_codes
                     /\ evicted # {}

C5_ReleasedOnEveryExit ==
    \A t \in Tasks :
        (tkind[t] = "safe" /\ pc[t] = "done" /\ acq[t] = "True")
            => /\ Len(released[t]) = 1
               /\ owner[code_hash(tcode[t])] # t

C7_FailedIsRetryable ==
    /\ \A h \in Hashes : lastRelease[h] = "failed" => h \notin processed_codes
    /\ \A t \in Tasks : retry[t] => /\ acq[t] \in {"none", "True"}
                                    /\ acq[t] = "none" => pc[t] = "got"

\* C7 happens: a caller was admitted after a release without mark
C7_Witness == \E t \in Tasks : retry[t] /\ acq[t] = "True"

\* C8 as claimed: an acquire_processing_lock call that times out, or whose
\* task is cancelled while it waits, returns False and holds nothing.
C8_WaitEndsFalse ==
    \A t \in Tasks : ended[t] \in {"timeout", "cancelled"} => acq[t] = "False"

\* The wake-up of a free lock is never lost: its first waiter is woken
LockPassedOn(lock) == (~lock.locked /\ lock.waiters # <<>>) => Head(lock.waiters) \in lock.done

\* C8 amended: a call that times out returns False; a call whose task is
\* cancelled while it waits ends with CancelledError, not with False; either
\* way it holds nothing afterwards, never becomes the holder, and the lock
\* goes to the next waiter or is free once the holder releases.
C8_WaitEndsWithoutLock ==
    /\ \A t \in Tasks :
          /\ ended[t] = "timeout" => acq[t] = "False"
          /\ ended[t] = "cancelled" => acq[t] = "CancelledError"
          /\ ended[t] \in {"timeout", "cancelled"} =>
                LET lock == processing_locks[code_hash(tcode[t])] IN
                /\ pc[t] = "done"
                /\ released[t] = <<>>
                /\ owner[code_hash(tcode[t])] # t
                /\ t \notin lock.done
                /\ \A i \in 1..Len(lock.waiters) : lock.waiters[i] # t
    /\ \A h \in DOMAIN processing_locks :
          /\ LockPassedOn(processing_locks[h])
          /\ processing_locks[h].locked => owner[h] # 0

\* C8 happens: a caller timed out while another held the code, the holder
\* released, and a third caller then holds the code
C8_Witness ==
    \E t, u, v \in Tasks :
        /\ tcode[t] = tcode[u] /\ tcode[u] = tcode[v]
        /\ ended[t] = "timeout"
        /\ released[v] # <<>>
        /\ Holding(u)

\* C9 as claimed: release_processing_lock by a caller that holds no admission
\* for the code is a no-op: it releases no lock and marks no code.
C9_StrayReleaseIsNoOp ==
    [][stray' # stray => UNCHANGED <<processing_locks, processed_codes>>]_vars

\* C10: validate_state returns the stored record exactly when the id is known,
\* not consumed and not older than STATE_EXPIRY, and None otherwise; a state
\* read as expired is removed by the call.
C10_ValidateIff ==
    [][ret'.op = "validate_state" =>
        LET s == ret'.state_id
            known == s \in DOMAIN oauth_states
            fresh == known /\ now - oauth_states[s].created_at <= STATE_EXPIRY
            valid == fresh /\ ~oauth_states[s].is_consumed
        IN /\ (ret'.value # None) <=> valid
           /\ valid => /\ ret'.value = Returned(oauth_states'[s])
                       /\ oauth_states'[s] = [oauth_states[s] EXCEPT !.is_consumed = TRUE]
           /\ (known /\ ~fresh) => s \notin DOMAIN oauth_states'
           /\ (known /\ fresh /\ ~valid) => oauth_states' = oauth_states
           /\ ~known => oauth_states' = oauth_states
           /\ \A x \in DOMAIN oauth_states \ {s} :
                 x \in DOMAIN oauth_states' /\ oauth_states'[x] = oauth_states[x]
      ]_vars

\* C10 happens: a state exactly STATE_EXPIRY old was validated and returned
C10_Witness ==
    /\ ret.op = "validate_state"
    /\ ret.value # None
    /\ now - ret.value[1].created_at = STATE_EXPIRY

\* C11: what validate_state does is independent of its request_ip and
\* user_agent arguments: the call made returns what the same call with any
\* other ip and user agent would have returned from the same registry, and
\* leaves the registry that call would have left; a consumed state is refused
\* whatever the ip.
C11_IpUaIndependent ==
    [][ret'.op = "validate_state" =>
        LET s == ret'.state_id IN
        /\ \A ip \in IPs, ua \in UserAgents :
              /\ ret'.value = ValidateResult(oauth_states, s, now, ip, ua)
              /\ oauth_states' = ValidateStates(oauth_states, s, now, ip, ua)
        /\ (s \in DOMAIN oauth_states /\ oauth_states[s].is_consumed) => ret'.value = None
      ]_vars

\* C11 happens: a state was validated from another ip and another user agent
\* than the ones it was issued for
C11_Witness ==
    /\ ret.op = "validate_state"
    /\ ret.value # None
    /\ ret.value[1].user_ip # ret.request_ip
    /\ ret.value[1].user_agent # ret.user_agent

\* C19: cleanup_expired_states removes exactly the states older than
\* STATE_EXPIRY, consumed or not, and leaves the others as they are; a second
\* sweep right after the first changes nothing; and a state issued no longer
\* than STATE_EXPIRY ago and never returned yet is returned by validate_state,
\* whatever sweeps ran in between.
C19_SweepExact ==
    [][/\ ret'.op = "cleanup_expired_states" =>
            /\ DOMAIN oauth_states' =
                  {s \in DOMAIN oauth_states :
                      now - oauth_states[s].created_at <= STATE_EXPIRY}
            /\ \A s \in DOMAIN oauth_states' : oauth_states'[s] = oauth_states[s]
            /\ ret.op = "cleanup_expired_states" => oauth_states' = oauth_states
       /\ ret'.op = "validate_state" =>
            LET s == ret'.state_id IN
            (/\ s \in StateIds
             /\ issuedAt[s] >= 0
             /\ now - issuedAt[s] <= STATE_EXPIRY
             /\ successes[s] = 0) => ret'.value # None
      ]_vars

\* C19 happens: a sweep has removed an expired state and left a consumed one
\* that is not expired
C19_Witness ==
    /\ ret.op = "cleanup_expired_states"
    /\ \E s \in StateIds : issuedAt[s] >= 0 /\ now - issuedAt[s] > STATE_EXPIRY
                             /\ s \notin DOMAIN oauth_states
    /\ \E s \in DOMAIN oauth_states : oauth_states[s].is_consumed

\* The run k of handle_casdoor_callback takes its session decision in this step
Decides(k) == cb[k].pc = "idle" /\ cb'[k].pc # "idle"

\* A record of the identity that is younger than the reuse window, persistent
\* and has a cookie
Reusable(sessions, email, current_time) ==
    {i \in DOMAIN sessions : /\ sessions[i].email = email
                             /\ current_time - sessions[i].created_at < REUSE_WINDOW
                             /\ sessions[i].is_persistent
                             /\ sessions[i].n8n_cookie # None}

\* C12: handle_casdoor_callback skips the n8n login exactly when the store has
\* a record of the identity that is younger than the reuse window, persistent
\* and has a cookie, and then it uses that record and leaves the store alone;
\* with no record, a record that is not persistent or one without a cookie it
\* goes on to the n8n login.
C12_ReuseIff ==
    [][\A k \in Callbacks : Decides(k) =>
          LET reusable == Reusable(active_sessions, cb'[k].email, now) IN
          /\ cb'[k].skip_n8n_login <=> reusable # {}
          /\ cb'[k].pc = (IF reusable # {} THEN "done" ELSE "login")
          /\ reusable # {} => /\ cb'[k].session_id \in reusable
                              /\ active_sessions' = active_sessions
      ]_vars

\* C12 happens: a run reused a session a run before it had made persistent,
\* the n8n login skipped
C12_Witness ==
    \E k \in Callbacks : /\ cb[k].skip_n8n_login
                         /\ cb[k].pc = "done"
                         /\ cb[k].session_age > 0
                         /\ \E j \in Callbacks : j # k /\ cb[j].session_id = cb[k].session_id

\* C13: for a persistent record with a cookie the decision is Reuse at every
\* age below REUSE_WINDOW seconds and Refresh at REUSE_WINDOW seconds and above.
C13_WindowClosedOpen ==
    [][\A k \in Callbacks : (Decides(k) /\ cb'[k].has_cookie) =>
          LET existing_session == active_sessions[cb'[k].session_id]
              age == now - existing_session.created_at
          IN /\ existing_session.is_persistent
             /\ age <= REUSE_WINDOW - 1 => (cb'[k].skip_n8n_login /\ cb'[k].pc = "done")
             /\ age >= REUSE_WINDOW => (~cb'[k].skip_n8n_login /\ cb'[k].pc = "login")
      ]_vars

\* C13 happens: a persistent record with a cookie, exactly REUSE_WINDOW seconds
\* old, was not reused
C13_Witness ==
    \E k \in Callbacks : /\ cb[k].has_cookie
                         /\ cb[k].session_age = REUSE_WINDOW
                         /\ ~cb[k].skip_n8n_login
                         /\ cb[k].pc = "login"

\* C14 as claimed: when a persistent record exists for the email,
\* create_session returns the session_id of that record and leaves the store
\* as it was.
C14_PersistentIsReturned ==
    [][sret'.op = "create_session" =>
          \A i \in DOMAIN active_sessions :
              (active_sessions[i].email = sret'.email /\ active_sessions[i].is_persistent)
                  => /\ sret'.returned_id = i
                     /\ active_sessions' = active_sessions
      ]_vars

\* C15 as claimed: the store never holds two records with the same email.
C15_OneRecordPerEmail ==
    \A i, j \in DOMAIN active_sessions :
        active_sessions[i].email = active_sessions[j].email => i = j

\* C16: every persistent record has a cookie: a record is persistent from
\* its creation with a cookie or from update_session_cookie on, and a
\* persistent record stays persistent and keeps a cookie while it is in the store.
C16_PersistentHasCookie ==
    [][/\ \A i \in DOMAIN active_sessions' :
             active_sessions'[i].is_persistent => active_sessions'[i].n8n_cookie # None
       /\ \A i \in DOMAIN active_sessions \cap DOMAIN active_sessions' :
             active_sessions[i].is_persistent =>
                 /\ active_sessions'[i].is_persistent
                 /\ active_sessions'[i].n8n_cookie # None
       /\ \A i \in DOMAIN active_sessions' :
             (active_sessions'[i].is_persistent
                 /\ (i \notin DOMAIN active_sessions \/ ~active_sessions[i].is_persistent))
               => \/ sret'.op = "create_session" /\ sret'.session_id = i
                                                 /\ sret'.n8n_cookie # None
                  \/ sret'.op = "update_session_cookie" /\ sret'.session_id = i
      ]_vars

\* C16 happens: one record was created with a cookie, another became
\* persistent by update_session_cookie, a third has no cookie and is not persistent
C16_Witness ==
    /\ sret.op = "update_session_cookie"
    /\ sret.returned_bool
    /\ \E i, j \in DOMAIN active_sessions :
          /\ i # sret.session_id /\ j # sret.session_id
          /\ active_sessions[i].is_persistent
          /\ ~active_sessions[j].is_persistent /\ active_sessions[j].n8n_cookie = None

\* C17: update_session_cookie with a session id that is not in the store
\* returns False and changes nothing; with a known id it returns True, sets
\* the cookie and is_persistent of that record and nothing else.
C17_UpdateKnownOnly ==
    [][sret'.op = "update_session_cookie" =>
          LET sid == sret'.session_id IN
          IF sid \notin DOMAIN active_sessions
          THEN /\ ~sret'.returned_bool
               /\ active_sessions' = active_sessions
          ELSE /\ sret'.returned_bool
               /\ DOMAIN active_sessions' = DOMAIN active_sessions
               /\ active_sessions'[sid].n8n_cookie = sret'.n8n_cookie
               /\ active_sessions'[sid].is_persistent
               /\ active_sessions'[sid].session_id = active_sessions[sid].session_id
               /\ active_sessions'[sid].email = active_sessions[sid].email
               /\ active_sessions'[sid].created_at = active_sessions[sid].created_at
               /\ \A i \in DOMAIN active_sessions \ {sid} :
                     active_sessions'[i] = active_sessions[i]
      ]_vars

\* C17 happens: the first session created, removed by the sweep since, is
\* unknown to update_session_cookie, other records being in the store
C17_Witness ==
    /\ sret.op = "update_session_cookie"
    /\ ~sret.returned_bool
    /\ sret.session_id = 1
    /\ sessions_issued >= 1
    /\ now > SESSION_EXPIRY
    /\ active_sessions # <<>>

\* C18: cleanup_expired_sessions removes every record older than
\* SESSION_EXPIRY, persistent or not, and leaves every other record as it is.
C18_SweepSessionsExact ==
    [][sret'.op = "cleanup_expired_sessions" =>
          /\ DOMAIN active_sessions' =
                {i \in DOMAIN active_sessions :
                    now - active_sessions[i].created_at <= SESSION_EXPIRY}
          /\ \A i \in DOMAIN active_sessions' : active_sessions'[i] = active_sessions[i]
      ]_vars

\* C18 happens: a sweep removed a persistent record and a record that was not
\* persistent and left a younger one
C18_Witness ==
    /\ sret.op = "cleanup_expired_sessions"
    /\ \E r \in sret.removed : r.is_persistent
    /\ \E r \in sret.removed : ~r.is_persistent
    /\ active_sessions # <<>>

\* C20 as claimed: when the sweep of one store raises in a pass of
\* cleanup_oauth_data, the sweeps of the other two stores run in that pass
\* and cleanup_oauth_data does not raise.
C20_SweepFailureIsContained ==
    [][(ret'.op = "cleanup_oauth_data" /\ ret'.fault # "none") =>
          /\ ret'.raises = "none"
          /\ Stores \ {ret'.fault} \subseteq ret'.swept
          /\ "states" # ret'.fault => oauth_states' = SweepStates(oauth_states, now)
      ]_vars

\* ------------------------------------------------- redeemed at entry
\* The step in which task t starts a call for a code that is in the redeemed set
StartsRedeemed(t) == pc[t] = "idle" /\ pc'[t] # "idle" /\ entry'[t].redeemed

\* The fast path of process_oauth_callback_safely: None at once, callback_func
\* not invoked, the lock table as it was
FastPathTaken(t) ==
    /\ pc'[t] = "done"
    /\ out'[t] = "None"
    /\ acq'[t] = "none"
    /\ UNCHANGED <<processing_locks, invoked>>

AcquireRefused(t) ==
    /\ tkind[t] = "safe"
    /\ ended[t] = "none"
    /\ ended'[t] \in {"timeout", "redeemed"}

\* C27: process_oauth_callback_safely calls acquire_processing_lock once; when
\* that call returns False the wrapper returns None at once, callback_func is
\* not invoked, release_processing_lock is not called, and after a timeout the
\* lock of the code is still held by the caller that held it.
C27_RefusedIsNotRetried ==
    [][\A t \in Tasks :
          LET h == code_hash(tcode[t]) IN
          /\ AcquireRefused(t) =>
                /\ pc'[t] = "done"
                /\ out'[t] = "None"
                /\ UNCHANGED <<invoked, released, processed_codes>>
                /\ ended'[t] = "timeout" =>
                      /\ owner'[h] = owner[h]
                      /\ processing_locks'[h].locked = processing_locks[h].locked
          /\ (tkind[t] = "safe" /\ ended[t] # "none") =>
                /\ ended'[t] = ended[t]
                /\ ended[t] \in {"timeout", "redeemed"} =>
                      pc'[t] = "done" /\ released'[t] = <<>>]_vars

\* A wrapper call timed out behind a holder: it returned None, and the holder
\* still holds the lock and is still in its callback
C27_Witness ==
    \E t, u \in Tasks :
        /\ tkind[t] = "safe" /\ ended[t] = "timeout"
        /\ pc[t] = "done" /\ out[t] = "None" /\ released[t] = <<>>
        /\ tcode[u] = tcode[t] /\ tkind[u] = "safe" /\ pc[u] = "callback"
        /\ owner[code_hash(tcode[t])] = u
        /\ processing_locks[code_hash(tcode[t])].locked

\* The step in which callback_func, awaited by task t at line 381, ends
CallbackEnds(t) == tkind[t] = "safe" /\ pc[t] = "callback" /\ pc'[t] = "done"

\* C28: process_oauth_callback_safely adds the code to the redeemed set if and
\* only if callback_func returned, whatever it returned; when callback_func
\* raises an Exception the lock is released, the code is not marked and the
\* exception goes to the caller.
C28_MarkedIffReturned ==
    [][\A t \in Tasks :
          LET h == code_hash(tcode[t]) IN
          CallbackEnds(t) =>
              /\ processed_codes' = IF out'[t] \in CallbackValues
                                    THEN processed_codes \cup {h}
                                    ELSE processed_codes
              /\ (h \in processed_codes') <=> (out'[t] \in CallbackValues)
              /\ out'[t] \in CallbackValues => released'[t] = <<TRUE>>
              /\ out'[t] \notin CallbackValues => out'[t] \in {"Exception", "CancelledError"}
              /\ out'[t] = "Exception" =>
                    /\ released'[t] = <<FALSE>>
                    /\ ~processing_locks'[h].locked
                    /\ owner'[h] = 0]_vars

\* One callback returned a safe redirect and its code is redeemed, another
\* raised and its code is not
C28_Witness ==
    \E t, u \in Tasks :
        /\ tkind[t] = "safe" /\ out[t] = "safe_redirect"
        /\ code_hash(tcode[t]) \in processed_codes
        /\ tkind[u] = "safe" /\ out[u] = "Exception"
        /\ code_hash(tcode[u]) \notin processed_codes
        /\ ~processing_locks[code_hash(tcode[u])].locked

\* ------------------------------------------------------ token exchange
\* The outcomes after which the loop of get_oauth_token makes no further attempt
Final200 == {"200_object", "200_not_object"}

\* C29: get_oauth_token sends at most 3 token requests per call; the first 200
\* response whose body parses is the last request, and so is a 400 response
\* with invalid_grant and 'authorization code has been used', which ends the
\* call at once with a redirect.
C29_AtMostThreeRequests ==
    /\ tok.requests = Len(tok.outcomes)
    /\ tok.requests <= 3
    /\ \A i \in 1..Len(tok.outcomes) :
          /\ tok.outcomes[i] \in Final200 \cup {"400_code_used"} =>
                i = Len(tok.outcomes) /\ tok.pc = "done"
          /\ tok.outcomes[i] = "200_object" =>
                tok.kind = "return" /\ tok.value = TokenData
          /\ tok.outcomes[i] = "400_code_used" =>
                tok.kind = "return" /\ tok.value = create_safe_redirect("invalid_grant")

\* The second request was answered with the used code: the call ended there,
\* with the redirect
C29_Witness ==
    /\ tok.pc = "done"
    /\ tok.outcomes = <<"network_error", "400_code_used">>
    /\ tok.requests = 2
    /\ tok.value.type = "RedirectResponse"

\* C30: whatever the token endpoint answers to each attempt (200 with valid
\* JSON, 200 with unparseable JSON, another status, a network error),
\* get_oauth_token ends within its three attempts and returns the token data
\* or a RedirectResponse: it does not return None and it does not raise.
C30_ReturnsTokenOrRedirect ==
    /\ tok.requests <= 3
    /\ tok.requests = 3 => tok.pc = "done"
    /\ tok.pc = "done" =>
          /\ tok.kind = "return"
          /\ tok.value.type \in {"dict", "RedirectResponse"}

\* ------------------------------------------------------ route handlers
\* The handler of request k has called f
Called(k, f) == \E i \in 1..Len(route[k].calls) : route[k].calls[i] = f

\* The handler of request k called f, and g only after it if at all
CalledFirst(k, f, g) ==
    \E i \in 1..Len(route[k].calls) :
        /\ route[k].calls[i] = f
        /\ \A j \in 1..i : route[k].calls[j] # g

\* The callback requests
IsCallback(k) == route[k].handler = "callback"

\* C21: the callback route handler calls validate_state on the state it was
\* sent before it exchanges the code; a callback whose state does not pass
\* ends in a redirect and its code is not exchanged.
C21_StateValidatedFirst ==
    \A k \in Requests :
        IsCallback(k) =>
            /\ Called(k, "get_oauth_token") =>
                  CalledFirst(k, "validate_state", "get_oauth_token")
            /\ (route[k].pc = "done" /\ ~route[k].state_ok) =>
                  /\ ~Called(k, "get_oauth_token")
                  /\ route[k].kind = "return"
                  /\ route[k].response.type = "RedirectResponse"

\* C22: a callback run reaches the token exchange only while it holds the
\* admission for its code: acquire_processing_lock was called for the code
\* before, and the lock of the code is held.
C22_ExchangeOnlyWhenAdmitted ==
    \A k \in Requests :
        IsCallback(k) =>
            /\ Called(k, "get_oauth_token") =>
                  CalledFirst(k, "acquire_processing_lock", "get_oauth_token")
            /\ route[k].pc = "token" =>
                  /\ code_hash(route[k].code) \in DOMAIN processing_locks
                  /\ processing_locks[code_hash(route[k].code)].locked
                  /\ \A j \in Requests \ {k} :
                        (IsCallback(j) /\ route[j].pc = "token") =>
                            route[j].code # route[k].code

\* C23: the redirect of every login request carries as its state parameter a
\* state that generate_state has registered for it, and no two logins carry
\* the same state.
C23_LoginCarriesIssuedState ==
    \A k \in Requests :
        (route[k].handler = "login" /\ route[k].kind = "return") =>
            /\ route[k].state \in DOMAIN oauth_states
            /\ \A j \in Requests \ {k} :
                  (route[j].handler = "login" /\ route[j].kind = "return") =>
                      route[j].state # route[k].state

\* C24: every run of the callback handling ends in a response (a redirect or
\* the fallback login page): whichever step fails, no exception leaves the
\* callback route handler.
C24_CallbackEndsInResponse ==
    \A k \in Requests :
        (IsCallback(k) /\ route[k].pc = "done") =>
            /\ route[k].kind = "return"
            /\ route[k].response.type \in {"RedirectResponse", "HTMLResponse"}
            /\ route[k].failure # "none" => route[k].response.type = "RedirectResponse"

\* One callback ended in the default redirect after its token exchange
\* failed, another in the redirect after its provisioning raised
C24_Witness ==
    \E k, j \in Requests :
        /\ IsCallback(k) /\ route[k].pc = "done"
        /\ route[k].failure = "token_exchange" /\ route[k].response = DefaultRedirect
        /\ IsCallback(j) /\ route[j].pc = "done"
        /\ route[j].failure = "provisioning" /\ route[j].response = FlashRedirect

\* C25: when handle_casdoor_callback, run under process_oauth_callback_safely
\* by an admitted caller, fails with a transient error (the token endpoint
\* cannot be reached), the code is released without a mark: it is not in the
\* redeemed set afterwards and the next callback with the code is admitted.
C25_TransientFailureIsRetryable ==
    [][\A t \in Tasks :
          LET h == code_hash(tcode[t]) IN
          (CallbackEnds(t) /\ out'[t] = "network_error") =>
              /\ h \notin processed_codes'
              /\ released'[t] = <<FALSE>>
              /\ lastRelease'[h] = "failed"]_vars

\* The lock of the fingerprint is free: not locked, nobody queued for it
LockFree(h) ==
    /\ h \in DOMAIN processing_locks
    /\ ~processing_locks[h].locked
    /\ processing_locks[h].waiters = <<>>

C38_LocksNeverExpire ==
    [][/\ DOMAIN processing_locks \subseteq DOMAIN processing_locks'
       /\ \A h \in DOMAIN processing_locks :
             (processing_locks[h].locked /\ ~processing_locks'[h].locked)
                 => /\ owner[h] # 0
                    /\ \/ Len(released'[owner[h]]) = Len(released[owner[h]]) + 1
                       \/ ended'[owner[h]] = "redeemed"
       /\ \A t \in Tasks :
             (/\ pc[t] = "wait"
              /\ pc'[t] # "wait"
              /\ processing_locks[code_hash(tcode[t])].locked)
                 => /\ ended'[t] = "timeout"
                    /\ acq'[t] = "False"]_vars

\* C38 happens: a caller holds a code it was admitted for and has not
\* released, a later caller for the held code has timed out, and the Janitor
\* has made a pass
C38_Witness ==
    \E t, u \in Tasks :
        /\ t # u
        /\ tcode[t] = tcode[u]
        /\ Holding(t)
        /\ entry[u].queued
        /\ ended[u] = "timeout"
        /\ ret.op = "cleanup_oauth_data"

\* C34: the redeemed set is capped: a sweep of cleanup_processed_codes leaves
\* the set as it is while it holds at most the high-water mark of
\* fingerprints, and after a sweep of a larger set the set holds no more
\* than the high-water mark.
C34_RedeemedSetCapped ==
    [][/\ Cardinality(processed_codes) <= HighWaterMark
            => processed_codes' = processed_codes
       /\ Cardinality(processed_codes) > HighWaterMark
            => Cardinality(processed_codes') <= HighWaterMark]_vars

\* The run has made its session decision
HasDecided(k) == run[k].pc \in {"sleep", "done"} /\ run[k].response.type # "flash_redirect"

\* C39: concurrent callbacks of one existing user do not race each other on
\* the user table of n8n: whenever a run submits a password to the n8n
\* login, that password is the one stored for the user at that moment, no
\* other run having rotated the password since this run did.
C39_LoginSubmitsStoredPassword ==
    \A k \in Callbacks : ~run[k].is_new_user => ~run[k].stale

\* C33: a run for an existing user (ensure_user_project_binding returned no
\* temporary password) rotates the password of the user exactly once, before
\* its session decision, whether the decision is to reuse or to refresh; a
\* run for a new user rotates nothing.
C33_RotatedOnceBeforeDecision ==
    /\ [](\A k \in Callbacks :
            /\ run[k].rotations <= 1
            /\ run[k].is_new_user => run[k].rotations = 0
            /\ (HasDecided(k) /\ ~run[k].is_new_user) => run[k].rotations = 1
            /\ run[k].pc = "decide" => (run[k].is_new_user \/ run[k].rotations = 1))
    /\ [][\A k \in Callbacks :
            run'[k].rotations # run[k].rotations
                => /\ ~HasDecided(k)
                   /\ run'[k].pc = "decide"
                   /\ n8n_user'[run[k].email] = run'[k].temp_password]_vars

\* C33 happens: two runs of one existing user, both have rotated the
\* password, one was decided Refresh and the other Reuse
C33_Witness ==
    \E j, k \in Callbacks :
        /\ j # k
        /\ run[j].email = run[k].email
        /\ ~run[j].is_new_user /\ ~run[k].is_new_user
        /\ run[j].pc = "done" /\ ~run[j].skip_n8n_login /\ run[j].updates = 1
        /\ run[k].pc = "done" /\ run[k].skip_n8n_login
        /\ run[j].rotations = 1 /\ run[k].rotations = 1

\* The run was decided Refresh and has returned its response
RefreshEnded(k) ==
    /\ run[k].pc = "done"
    /\ run[k].attempts > 0

\* C31: on a Refresh decision handle_casdoor_callback attempts the n8n login
\* at most 2 times and makes no attempt after one that yielded an auth
\* cookie; update_session_cookie is called if and only if a cookie was
\* obtained; when no attempt yields a cookie the session store is left as it
\* was (a record becomes persistent only through a run that obtained a
\* cookie) and the response is the fallback login page, not a cookie redirect.
C31_RefreshLogin ==
    /\ [](\A k \in Callbacks :
            /\ run[k].attempts <= 2
            /\ run[k].pc = "sleep" => (run[k].auth_cookie = None /\ run[k].attempts < 2)
            /\ run[k].updates = (IF RefreshEnded(k) /\ run[k].auth_cookie # None
                                 THEN 1 ELSE 0)
            /\ RefreshEnded(k) =>
                  IF run[k].auth_cookie # None
                  THEN run[k].response = LoginResponse("cookie_redirect", run[k].auth_cookie)
                  ELSE /\ run[k].response = LoginResponse("login_page", None)
                       /\ run[k].attempts = 2)
    /\ [](\A i \in DOMAIN active_sessions :
            active_sessions[i].is_persistent
                => \E k \in Callbacks :
                      /\ run[k].session_id = i
                      /\ run[k].updates = 1
                      /\ active_sessions[i].n8n_cookie \in
                            {run[j].auth_cookie : j \in Callbacks} \ {None})
    /\ [][\A k \in Callbacks :
            /\ run[k].auth_cookie # None => run'[k].attempts = run[k].attempts
            /\ (run[k].pc # "done" /\ run'[k].response.type = "login_page")
                  => active_sessions' = active_sessions]_vars

\* C31 happens: one run made two attempts without a cookie, returned the
\* login page and left the record it had created non-persistent; another run
\* obtained the cookie at its second attempt and attached it
C31_Witness ==
    \E j, k \in Callbacks :
        /\ RefreshEnded(j) /\ run[j].creates = 1 /\ run[j].attempts = 2
        /\ run[j].auth_cookie = None
        /\ run[j].response.type = "login_page"
        /\ ~active_sessions[run[j].session_id].is_persistent
        /\ RefreshEnded(k) /\ run[k].attempts = 2 /\ run[k].updates = 1
        /\ active_sessions[run[k].session_id].n8n_cookie = run[k].auth_cookie

\* C32: on a Reuse decision handle_casdoor_callback attempts no n8n login,
\* creates and modifies no session record, and returns the redirect whose
\* n8n-auth cookie is the n8n_cookie stored in the record it found.
C32_ReuseTouchesNothing ==
    /\ [](\A k \in Callbacks :
            run[k].skip_n8n_login
                => /\ run[k].pc = "done"
                   /\ run[k].attempts = 0
                   /\ run[k].creates = 0
                   /\ run[k].updates = 0
                   /\ run[k].response.type = "cookie_redirect")
    /\ [][\A k \in Callbacks :
            (run'[k].skip_n8n_login /\ ~run[k].skip_n8n_login)
                => LET found == get_active_session(active_sessions, run[k].email) IN
                   /\ active_sessions' = active_sessions
                   /\ sessions_issued' = sessions_issued
                   /\ found # None
                   /\ found[1].n8n_cookie # None
                   /\ run'[k].session_id = found[1].session_id
                   /\ run'[k].response.cookie = found[1].n8n_cookie]_vars

\* C32 happens: a run reused the cookie another run had attached to the
\* record of the identity
C32_Witness ==
    \E j, k \in Callbacks :
        /\ j # k
        /\ run[j].updates = 1
        /\ run[k].skip_n8n_login
        /\ run[k].session_id = run[j].session_id
        /\ run[k].response = LoginResponse("cookie_redirect", run[j].auth_cookie)
        /\ Cardinality(DOMAIN active_sessions) = 1

\* The records the session store holds for the email
RecordsOf(sessions, email) == {i \in DOMAIN sessions : sessions[i].email = email}

\* C35: handle_casdoor_callback calls create_session only when the lookup
\* of get_active_session found no record of the identity, in the same step
\* as the lookup; on Refresh with a record found it keeps the session_id of
\* that record and creates nothing.  Whatever the interleaving of the
\* callbacks of one identity, the store holds at most one record of it.
C35_OneRecordPerIdentity ==
    /\ [](\A e \in Emails : Cardinality(RecordsOf(active_sessions, e)) <= 1)
    /\ [][\A k \in Callbacks :
            (run[k].pc = "decide" /\ run'[k].pc # "decide")
                => LET found == get_active_session(active_sessions, run[k].email) IN
                   IF found = None
                   THEN /\ run'[k].creates = 1
                        /\ sessions_issued' = sessions_issued + 1
                        /\ run'[k].session_id = sessions_issued'
                        /\ DOMAIN active_sessions' =
                              DOMAIN active_sessions \cup {sessions_issued'}
                   ELSE /\ run'[k].creates = 0
                        /\ sessions_issued' = sessions_issued
                        /\ run'[k].session_id = found[1].session_id
                        /\ DOMAIN active_sessions' = DOMAIN active_sessions]_vars

\* C35 happens: two runs of one identity were decided Refresh, the first
\* created the record, the second found it without a cookie and kept it
C35_Witness ==
    \E j, k \in Callbacks :
        /\ j # k
        /\ run[j].email = run[k].email
        /\ run[j].creates = 1
        /\ run[k].existing /\ ~run[k].skip_n8n_login /\ ~run[k].had_cookie
        /\ run[k].creates = 0
        /\ run[k].session_id = run[j].session_id
        /\ RecordsOf(active_sessions, run[k].email) = {run[k].session_id}

\* C36: update_session_cookie never changes the created_at of a record, and
\* the age that decides the reuse is measured from created_at: a run that
\* finds a record of its identity that is 60 s old or older is decided
\* Refresh, even when a fresh cookie has just been attached to the record,
\* until cleanup_expired_sessions has removed the record and a new one has
\* been created.
C36_OldRecordNeverReused ==
    [][/\ \A i \in DOMAIN active_sessions \cap DOMAIN active_sessions' :
             active_sessions'[i].created_at = active_sessions[i].created_at
       /\ \A k \in Callbacks :
             (run[k].pc = "decide" /\ run'[k].pc # "decide")
                 => \A i \in RecordsOf(active_sessions, run[k].email) :
                       now - active_sessions[i].created_at >= 60
                           => /\ ~run'[k].skip_n8n_login
                              /\ run'[k].attempts = 1
                              /\ run'[k].session_id = i]_vars

\* C36 happens: a cookie was attached to a record that was older than 60 s,
\* and a later run of the identity, finding the record with that cookie,
\* was still decided Refresh
C36_Witness ==
    \E j, k \in Callbacks :
        /\ j # k
        /\ run[j].updates = 1
        /\ run[j].session_id \in DOMAIN active_sessions
        /\ run[j].updated_old
        /\ run[k].existing /\ run[k].had_cookie /\ run[k].session_age >= 60
        /\ run[k].session_id = run[j].session_id
        /\ ~run[k].skip_n8n_login
        /\ run[k].pc = "done"
====
